---- MODULE Spec2Model ----
(***************************************************************************)
(* Kari agent ("the Muscle"): the peer-credential accept loop, the package *)
(* command handler, the streaming deployment pipeline with its bounded log *)
(* channel, the release pruner, the Apache vhost manager, the SSL engine, *)
(* the provider credential, the git manager, the deployment teardown, the  *)
(* jail user provisioning, the service manager and the startup and         *)
(* shutdown of the process, modelled from agent/src.                       *)
(*                                                                         *)
(* Strings the code inspects character by character (domain names, command *)
(* arguments, directory names) are sequences of one-character strings.     *)
(* Strings the code only compares as a whole are TLA+ strings.             *)
(***************************************************************************)
EXTENDS Integers, Sequences, FiniteSets, TLC

VARIABLES
    \* ---- main.rs: accept loop
    expected_uid,      \* config.expected_api_uid
    conn_log,          \* every result of listener.accept(), in order
    incoming,          \* the items incoming_stream has yielded to the RPC framework
    warnings,          \* uids named in "SECURITY ALERT" warnings
    serving,           \* the server future: "running", or "ended" once it resolved
    \* ---- server.rs: execute_package_command
    pkg_served,        \* number of requests handled
    pkg_last,          \* the last request and what the handler did with it
    \* ---- server.rs: stream_deployment and its background task; build.rs
    dpc,               \* where the handler / background task stands
    dreq,              \* the DeployRequest
    release_dir,       \* the release directory path the handler computed
    chan,              \* the mpsc channel's buffer (tx -> rx)
    rx_alive,          \* the client still holds the receiver
    disconnected_at,   \* the task's position when the client went away
    delivered,         \* chunks the client has received
    lines_dropped,     \* the task's lines_dropped counter
    chunks_lost,       \* chunks a try_send discarded while the receiver was alive
    calls,             \* manager calls the task has made, in order
    call_results,      \* whether each manager call that returned was Ok, in order
    child,             \* the build child: "none", "running", "exit_0", "exit_nonzero"
    child_written,     \* lines the child has put into its pipes so far
    out_pipe,          \* the lines in the child's stdout pipe, oldest first
    err_pipe,          \* the lines in the child's stderr pipe, oldest first
    stdout_task,       \* reader task: "none", "reading", "sending", "done"
    stderr_task,
    release_dir_exists, \* the release directory is on disk
    \* ---- sys/cleanup.rs: prune_old_releases
    releases_exists,   \* the releases directory exists
    rel_entries,       \* the entries of the releases directory
    current_target,    \* what the symbolic link <base>/current holds (<<>>: no link)
    prune_calls,       \* invocations so far
    prune_last,        \* what the last invocation did
    \* ---- sys/apache.rs: ApacheManager
    sites_available,   \* domains with a file <sites-available>/<domain>.conf
    sites_enabled,     \* domains with a link <sites-enabled>/<domain>.conf
    proxy_ops,         \* vhost operations so far
    proxy_last,        \* the last vhost operation: commands run and result
    \* ---- sys/ssl.rs: LinuxSslEngine::install_certificate
    ssl_pc,            \* the system call install_certificate is about to make
    ssl_domain,        \* payload.domain_name of the call in progress
    ssl_store,         \* per domain: mode of the directory, the two files
    ssl_installs,      \* calls so far
    ssl_result,        \* what the last call returned
    umask,             \* the agent's file mode creation mask
    \* ---- sys/secrets.rs: ProviderCredential
    sec_state,         \* "none", "live", "destroyed", "dropped"
    sec_bytes,         \* the bytes in the credential's backing buffer
    sec_source,        \* the bytes in the buffer of from_string's source string
    sec_seen,          \* what the last use_secret callback was given
    sec_log,           \* the operations so far
    \* ---- sys/git.rs: SystemGitManager::clone_repo
    git_pc,            \* the step clone_repo is about to make
    git_req,           \* the arguments of the call
    key_file,          \* the temporary SSH key file
    key_residue,       \* what the key file held when it was unlinked
    git_exit,          \* how the git child ended
    git_result,        \* what clone_repo returned
    \* ---- DeleteDeployment
    del_pc,            \* the teardown step the handler is about to make
    del_req,           \* the request
    del_steps,         \* the steps executed for the request, with their outcome
    del_result,        \* what the handler returned
    del_served,        \* requests so far
    \* ---- server.rs: a second stream_deployment task running at the same time
    peer_req,          \* its request
    peer_chan,         \* its channel
    peer_sent,         \* chunks its task and reader tasks have produced
    \* ---- sys/jail.rs: LinuxJailManager::provision_app_user
    sys_users,         \* the users of the host
    jail_log,          \* the calls so far: probe, useradd, result, users afterwards
    \* ---- server.rs: manage_service
    svc_served,        \* requests so far
    svc_last,          \* the last request, the supervisor calls made for it and the response
    \* ---- main.rs: startup, serve and shutdown of the process
    main_pc,           \* the step main() is at
    main_exit,         \* "running", or how the process ended
    env,               \* the environment: KARI_API_UID and KARI_SOCKET_PATH
    host,              \* which proxy configuration directories exist on the host
    sock,              \* the socket directory and the socket file
    main_log,          \* the filesystem steps main() has made, in order
    streams,           \* the state of every RPC stream ever started
    \* ---- grpc/handlers.rs, commands/site.rs: activate_site
    site_served,       \* requests so far
    site_last,         \* the last request, the actions run for it and the result
    \* ---- sys/systemd.rs: LinuxSystemdManager::write_unit_file
    unit_calls,        \* calls so far
    unit_last,         \* the environment of the last call, the lines rendered for it, the result
    unit_file,         \* the unit file on disk: its Environment lines and its mode
    \* ---- server.rs: stream_deployment tasks that run at the same time
    con_now,           \* the second the clock of the host shows
    con_pc,            \* per task: where it stands
    con_req,           \* per task: the domain of its request and the timestamp the handler took
    con_clean,         \* per task: git found no release directory in its way when it started
    con_dirs           \* the release directories on disk

acceptVars == <<expected_uid, conn_log, incoming, warnings, serving>>
pkgVars == <<pkg_served, pkg_last>>
deployVars == <<dpc, dreq, release_dir, chan, rx_alive, disconnected_at, delivered,
                lines_dropped,
                chunks_lost, calls, call_results, child, child_written, out_pipe,
                err_pipe, stdout_task, stderr_task, release_dir_exists>>
pruneVars == <<releases_exists, rel_entries, current_target, prune_calls, prune_last>>
proxyVars == <<sites_available, sites_enabled, proxy_ops, proxy_last>>
sslVars == <<ssl_pc, ssl_domain, ssl_store, ssl_installs, ssl_result, umask>>
secretVars == <<sec_state, sec_bytes, sec_source, sec_seen, sec_log>>
gitVars == <<git_pc, git_req, key_file, key_residue, git_exit, git_result>>
deleteVars == <<del_pc, del_req, del_steps, del_result, del_served>>
peerVars == <<peer_req, peer_chan, peer_sent>>
jailVars == <<sys_users, jail_log>>
svcVars == <<svc_served, svc_last>>
mainVars == <<main_pc, main_exit, env, host, sock, main_log, streams>>
siteVars == <<site_served, site_last>>
unitVars == <<unit_calls, unit_last, unit_file>>
conVars == <<con_now, con_pc, con_req, con_clean, con_dirs>>
vars == <<acceptVars, pkgVars, deployVars, pruneVars, proxyVars, sslVars, secretVars,
          gitVars, deleteVars, peerVars,
          jailVars,
          svcVars,
          mainVars,
          siteVars,
          unitVars,
          conVars>>

notAccept == <<pkgVars, deployVars, pruneVars, proxyVars, sslVars,
    secretVars, gitVars, deleteVars, peerVars, jailVars, svcVars, mainVars, siteVars,
    unitVars, conVars>>
notPkg == <<acceptVars, deployVars, pruneVars, proxyVars, sslVars,
    secretVars, gitVars, deleteVars, peerVars, jailVars, svcVars, mainVars, siteVars,
    unitVars, conVars>>
notDeploy == <<acceptVars, pkgVars, pruneVars, proxyVars, sslVars,
    secretVars, gitVars, deleteVars, peerVars, jailVars, svcVars, mainVars, siteVars,
    unitVars, conVars>>
notPrune == <<acceptVars, pkgVars, deployVars, proxyVars, sslVars,
    secretVars, gitVars, deleteVars, peerVars, jailVars, svcVars, mainVars, siteVars,
    unitVars, conVars>>
notProxy == <<acceptVars, pkgVars, deployVars, pruneVars, sslVars,
    secretVars, gitVars, deleteVars, peerVars, jailVars, svcVars, mainVars, siteVars,
    unitVars, conVars>>
notSsl == <<acceptVars, pkgVars, deployVars, pruneVars, proxyVars,
    secretVars, gitVars, deleteVars, peerVars, jailVars, svcVars, mainVars, siteVars,
    unitVars, conVars>>
notSecret == <<acceptVars, pkgVars, deployVars, pruneVars, proxyVars, sslVars,
    gitVars, deleteVars, peerVars, jailVars, svcVars, mainVars, siteVars, unitVars,
    conVars>>
notGitSecret == <<acceptVars, pkgVars, deployVars, pruneVars, proxyVars, sslVars,
    deleteVars, peerVars, jailVars, svcVars, mainVars, siteVars, unitVars, conVars>>
notDelete == <<acceptVars, pkgVars, deployVars, pruneVars, proxyVars, sslVars,
    secretVars, gitVars, peerVars, jailVars, svcVars, mainVars, siteVars, unitVars,
    conVars>>
notPeer == <<acceptVars, pkgVars, deployVars, pruneVars, proxyVars, sslVars,
    secretVars, gitVars, deleteVars, jailVars, svcVars, mainVars, siteVars, unitVars,
    conVars>>
notJail == <<acceptVars, pkgVars, deployVars, pruneVars, proxyVars, sslVars,
    secretVars, gitVars, deleteVars, peerVars, svcVars, mainVars, siteVars, unitVars,
    conVars>>
notService == <<acceptVars, pkgVars, deployVars, pruneVars, proxyVars, sslVars,
    secretVars, gitVars, deleteVars, peerVars, jailVars, mainVars, siteVars, unitVars,
    conVars>>
notMainAccept == <<pkgVars, deployVars, pruneVars, proxyVars, sslVars, secretVars,
    gitVars, deleteVars, peerVars, jailVars, svcVars, siteVars, unitVars, conVars>>
notMain == <<acceptVars, pkgVars, deployVars, pruneVars, proxyVars, sslVars,
    secretVars, gitVars, deleteVars, peerVars, jailVars, svcVars, siteVars, unitVars,
    conVars>>
notSite == <<acceptVars, pkgVars, deployVars, pruneVars, proxyVars, sslVars,
    secretVars, gitVars, deleteVars, peerVars, jailVars, svcVars, mainVars, unitVars,
    conVars>>
notUnit == <<acceptVars, pkgVars, deployVars, pruneVars, proxyVars, sslVars,
    secretVars, gitVars, deleteVars, peerVars, jailVars, svcVars, mainVars, siteVars,
    conVars>>
notCon == <<acceptVars, pkgVars, deployVars, pruneVars, proxyVars, sslVars,
    secretVars, gitVars, deleteVars, peerVars, jailVars, svcVars, mainVars, siteVars, unitVars>>

(***************************************************************************)
(* Bounds of the model.                                                    *)
(***************************************************************************)
MaxConns == 3
MaxPkgReqs == 2
MaxLines == 2          \* lines the build child writes at most

(***************************************************************************)
(* str::contains on character sequences.                                   *)
(***************************************************************************)
Contains(s, sub) ==
    \E i \in 1..(Len(s) - Len(sub) + 1) : SubSeq(s, i, i + Len(sub) - 1) = sub

(***************************************************************************)
(* main.rs: the peer credential guard of incoming_stream.                  *)
(***************************************************************************)
Uids == {0, 1001, 1002}

PeerAllowed_RootConfig(cred_uid, uid) == cred_uid = uid \/ uid = 0

\* cred.uid() == uid || cred.uid() == 0
PeerAllowed(cred_uid, uid) == cred_uid = uid \/ cred_uid = 0

AcceptIdle ==
    /\ conn_log = <<>>
    /\ incoming = <<>>
    /\ warnings = <<>>
    /\ serving = "running"

LoopAfterReject_Break == "ended"

\* The else arm of the guard only warns: the stream is dropped at the end of
\* the match arm and the loop goes round again.
LoopAfterReject == "running"

\* listener.accept() returned Ok((stream, _)); peer_cred() is Ok or Err. A
\* stream that is not yielded is dropped, which closes the connection.
AcceptConn(peer, cred_ok) ==
    /\ serving = "running"
    /\ Len(conn_log) < MaxConns
    /\ LET yielded == cred_ok /\ PeerAllowed(peer, expected_uid)
       IN /\ conn_log' = Append(conn_log,
                [accept_ok |-> TRUE, uid |-> peer, cred_ok |-> cred_ok,
                 yielded |-> yielded, closed |-> ~yielded])
          /\ serving' = IF yielded THEN serving ELSE LoopAfterReject
          /\ incoming' = IF yielded
                         THEN Append(incoming, [ok |-> TRUE, uid |-> peer])
                         ELSE incoming
          /\ warnings' = IF cred_ok /\ ~yielded
                         THEN Append(warnings, peer)
                         ELSE warnings
    /\ UNCHANGED <<expected_uid, notAccept>>

\* listener.accept() returned Err(e): the error is logged and yielded to
\* serve_with_incoming as an item of the stream. Whether the server goes on
\* polling the stream after an Err item or resolves with that error (the
\* first arm of the select! in main) is decided by the RPC framework.
AcceptError(fatal) ==
    /\ serving = "running"
    /\ Len(conn_log) < MaxConns
    /\ conn_log' = Append(conn_log,
            [accept_ok |-> FALSE, uid |-> 0, cred_ok |-> FALSE, yielded |-> FALSE,
             closed |-> FALSE])
    /\ incoming' = Append(incoming, [ok |-> FALSE, uid |-> 0])
    /\ serving' = IF fatal THEN "ended" ELSE "running"
    /\ UNCHANGED <<expected_uid, warnings, notAccept>>

AcceptErrorStep == \E fatal \in BOOLEAN : AcceptError(fatal)

AcceptStep == \E peer \in Uids, cred_ok \in BOOLEAN : AcceptConn(peer, cred_ok)

(***************************************************************************)
(* server.rs: execute_package_command.                                     *)
(***************************************************************************)
ALLOWED_SYS_COMMANDS == {"apt-get", "apt", "dnf", "yum", "rm", "chown", "ln"}

PkgCommands == {"apt-get", "apt", "dnf", "yum", "zypper", "rm", "chown", "ln", "curl"}

ArgPool == { <<"n">>, <<"/">>, <<".", ".", "/", "e">>, <<"n", ";", "r">>,
             <<"n", "&">>, <<"|", "r">> }

ArgVectors == {<<>>} \cup {<<a>> : a \in ArgPool}

NoPkgRequest == [command |-> "", args |-> <<>>, outcome |-> "none", spawned |-> FALSE]

\* req.command == "rm" && req.args.iter().any(|a| a == "/" || a.contains(".."))
DestructiveTraversal(command, args) ==
    /\ command = "rm"
    /\ \E i \in 1..Len(args) : args[i] = <<"/">> \/ Contains(args[i], <<".", ".">>)

PkgIdle ==
    /\ pkg_served = 0
    /\ pkg_last = NoPkgRequest

\* output: what Command::output() does when the handler reaches it:
\* "spawn_failed" (Status::internal), "exit_0", "exit_nonzero".
execute_package_command(command, args, output) ==
    /\ pkg_served < MaxPkgReqs
    /\ pkg_served' = pkg_served + 1
    /\ pkg_last' =
         IF command \notin ALLOWED_SYS_COMMANDS
         THEN [command |-> command, args |-> args,
               outcome |-> "rejected_policy", spawned |-> FALSE]
         ELSE IF DestructiveTraversal(command, args)
         THEN [command |-> command, args |-> args,
               outcome |-> "rejected_traversal", spawned |-> FALSE]
         ELSE [command |-> command, args |-> args,
               outcome |-> output, spawned |-> output # "spawn_failed"]
    /\ UNCHANGED notPkg

PkgStep ==
    \E command \in PkgCommands, args \in ArgVectors,
       output \in {"spawn_failed", "exit_0", "exit_nonzero"} :
        execute_package_command(command, args, output)

(***************************************************************************)
(* server.rs: stream_deployment, its background task and send_log;         *)
(* build.rs: execute_build and its two reader tasks.                       *)
(***************************************************************************)
\* mpsc::channel(512), scaled down so that a full channel is reachable.
ChanCap == 3

DomainPool == { <<"e", "x">>, <<".", ".", "/", "e">>, <<"e", "\\", "x">> }
AppIdPool == { <<"a", "1">>, <<"a", " ", "b">> }
TraceIds == {"t-1", "t-2"}
Timestamps == {"20260221141759"}

NoDeployRequest == [domain_name |-> <<>>, app_id |-> <<>>, trace_id |-> ""]

\* format!("{}/{}", self.config.web_root, req.domain_name)
BaseDir(domain_name) == <<"/var/www/kari", "/">> \o domain_name

\* format!("{}/releases/{}", base_dir, timestamp)
ReleaseDir(domain_name, timestamp) == BaseDir(domain_name) \o <<"/releases/", timestamp>>

\* format!("kari-app-{}", req.app_id)
AppUser(app_id) == <<"k", "a", "r", "i", "-", "a", "p", "p", "-">> \o app_id

AsciiAlnum == {"a", "b", "e", "i", "k", "p", "r", "x", "1"}

SuspiciousUsername_EmptyOnly(run_as_user) == run_as_user = <<>>

\* run_as_user.is_empty() || !run_as_user.chars().all(|c| c.is_ascii_alphanumeric() || c == '-')
SuspiciousUsername(run_as_user) ==
    \/ run_as_user = <<>>
    \/ \E i \in 1..Len(run_as_user) : run_as_user[i] \notin (AsciiAlnum \cup {"-"})

\* The log lines of the task and of the reader tasks.
LOG_CLONE_START == "Starting Git Clone"
LOG_CLONE_FAILED == "ERROR: Git Clone Failed"
LOG_BUILD_START == "Starting Isolated Build Process"
LOG_BUILD_FAILED == "ERROR: Build failed"
LOG_RESTARTING == "Build successful. Restarting application daemon"
LOG_COMPLETE == "Deployment Complete. Zero-Downtime Swap Successful."
LOG_DROPPED == "... [Dropped lines due to UI latency] ..."
LOG_OUT == "[OUT]"
LOG_ERR == "[ERR]"

ChunkOf_Primary(req, content) == [content |-> content, trace_id |-> dreq.trace_id]

\* LogChunk { content: msg, trace_id: req.trace_id.clone() }, in the closure of
\* the task that owns req.
ChunkOf(req, content) == [content |-> content, trace_id |-> req.trace_id]

Chunk(content) == ChunkOf(dreq, content)

\* The trace_id argument of execute_build: the trace id of the request.
BuildTraceId == dreq.trace_id

\* LogChunk { content: msg, trace_id: t_out.clone() } of a reader task.
ReaderChunk(content) == [content |-> content, trace_id |-> BuildTraceId]

\* tx.try_send(chunk): Closed once the receiver is gone, Full at capacity.
TrySend(ch, chunk) ==
    IF ~rx_alive THEN [chan |-> ch, res |-> "Closed"]
    ELSE IF Len(ch) >= ChanCap THEN [chan |-> ch, res |-> "Full"]
    ELSE [chan |-> Append(ch, chunk), res |-> "Ok"]

\* The send_log closure: what it leaves in the channel, in lines_dropped, and
\* how many chunks it discarded although the receiver was alive.
SendLog(msg) ==
    LET first == TrySend(chan, Chunk(msg))
        notice == TrySend(first.chan, Chunk(LOG_DROPPED))
    IN IF first.res = "Ok"
       THEN IF lines_dropped > 0
            THEN [chan |-> notice.chan, dropped |-> 0,
                  lost |-> IF notice.res = "Full" THEN 1 ELSE 0]
            ELSE [chan |-> first.chan, dropped |-> lines_dropped, lost |-> 0]
       ELSE IF first.res = "Full"
       THEN [chan |-> chan, dropped |-> lines_dropped + 1, lost |-> 1]
       ELSE [chan |-> chan, dropped |-> lines_dropped, lost |-> 0]

DoSendLog(msg) ==
    /\ chan' = SendLog(msg).chan
    /\ lines_dropped' = SendLog(msg).dropped
    /\ chunks_lost' = chunks_lost + SendLog(msg).lost

DeployIdle ==
    /\ dpc = "idle"
    /\ dreq = NoDeployRequest
    /\ release_dir = <<>>
    /\ chan = <<>>
    /\ rx_alive = FALSE
    /\ disconnected_at = "never"
    /\ delivered = <<>>
    /\ lines_dropped = 0
    /\ chunks_lost = 0
    /\ calls = <<>>
    /\ call_results = <<>>
    /\ child = "none"
    /\ child_written = 0
    /\ out_pipe = <<>>
    /\ err_pipe = <<>>
    /\ stdout_task = "none"
    /\ stderr_task = "none"
    /\ release_dir_exists = FALSE

\* The handler: computes the paths, creates the channel, spawns the task and
\* returns the receiver.
stream_deployment(domain_name, app_id, trace_id, timestamp) ==
    /\ dpc = "idle"
    /\ dreq' = [domain_name |-> domain_name, app_id |-> app_id, trace_id |-> trace_id]
    /\ release_dir' = ReleaseDir(domain_name, timestamp)
    /\ rx_alive' = TRUE
    /\ dpc' = "spawned"
    /\ UNCHANGED <<disconnected_at, call_results, chan, delivered, lines_dropped,
                   chunks_lost, calls, child, child_written, out_pipe, err_pipe,
                   stdout_task, stderr_task, release_dir_exists>>
    /\ UNCHANGED notDeploy

DeployRequest ==
    \E domain_name \in DomainPool, app_id \in AppIdPool, trace_id \in TraceIds,
       timestamp \in Timestamps :
        stream_deployment(domain_name, app_id, trace_id, timestamp)

\* The task starts: the start marker, then git_mgr.clone_repo(..).await.
TaskFetch ==
    /\ dpc = "spawned"
    /\ DoSendLog(LOG_CLONE_START)
    /\ calls' = Append(calls, "clone_repo")
    /\ dpc' = "cloning"
    /\ UNCHANGED <<disconnected_at, call_results, dreq, release_dir, rx_alive,
                   delivered, child, child_written, out_pipe, err_pipe, stdout_task,
                   stderr_task, release_dir_exists>>
    /\ UNCHANGED notDeploy

CloneFailed_RemoveDir(dir_left) ==
    /\ release_dir_exists' = FALSE
    /\ calls' = Append(calls, "remove_dir_all")
    /\ DoSendLog(LOG_CLONE_FAILED)
    /\ dpc' = "failed_fetch"

\* The failure arm of the fetch stage: the error line, return. git may have
\* left the directory it was given behind (dir_left).
CloneFailed(dir_left) ==
    /\ release_dir_exists' = dir_left
    /\ UNCHANGED calls
    /\ DoSendLog(LOG_CLONE_FAILED)
    /\ dpc' = "failed_fetch"

\* clone_repo returned; on success jail_mgr.secure_directory(..).await follows.
CloneReturns(ok, dir_left) ==
    /\ dpc = "cloning"
    /\ call_results' = Append(call_results, ok)
    /\ IF ok
       THEN /\ release_dir_exists' = TRUE
            /\ calls' = Append(calls, "secure_directory")
            /\ dpc' = "jailing"
            /\ UNCHANGED <<chan, lines_dropped, chunks_lost>>
       ELSE CloneFailed(dir_left)
    /\ UNCHANGED <<disconnected_at, dreq, release_dir, rx_alive, delivered, child,
                   child_written, out_pipe, err_pipe, stdout_task, stderr_task>>
    /\ UNCHANGED notDeploy

CloneStep == \E ok, dir_left \in BOOLEAN : CloneReturns(ok, dir_left)

\* secure_directory returned (its result is discarded); the build marker, then
\* build_mgr.execute_build(..) up to its first await point.
JailReturns(ok) ==
    /\ dpc = "jailing"
    /\ call_results' = Append(call_results, ok)
    /\ DoSendLog(LOG_BUILD_START)
    /\ calls' = Append(calls, "execute_build")
    /\ dpc' = "build_called"
    /\ UNCHANGED <<disconnected_at, dreq, release_dir, rx_alive, delivered, child,
                   child_written, out_pipe, err_pipe, stdout_task, stderr_task,
                   release_dir_exists>>
    /\ UNCHANGED notDeploy

JailStep == \E ok \in BOOLEAN : JailReturns(ok)

\* The failure arm of the build stage: remove_dir_all, the error line, return.
BuildFailed ==
    /\ call_results' = Append(call_results, FALSE)
    /\ release_dir_exists' = FALSE
    /\ calls' = Append(calls, "remove_dir_all")
    /\ DoSendLog(LOG_BUILD_FAILED)
    /\ dpc' = "failed_build"

\* execute_build: identity validation, then spawn of the child and of the two
\* reader tasks.
BuildSpawn(spawn_ok) ==
    /\ dpc = "build_called"
    /\ IF SuspiciousUsername(AppUser(dreq.app_id)) \/ ~spawn_ok
       THEN /\ BuildFailed
            /\ UNCHANGED <<child, stdout_task, stderr_task>>
       ELSE /\ child' = "running"
            /\ stdout_task' = "reading"
            /\ stderr_task' = "reading"
            /\ dpc' = "building"
            /\ UNCHANGED <<chan, lines_dropped, chunks_lost, calls, call_results,
                           release_dir_exists>>
    /\ UNCHANGED <<disconnected_at, dreq, release_dir, rx_alive, delivered, child_written,
                   out_pipe, err_pipe>>
    /\ UNCHANGED notDeploy

BuildSpawnStep == \E spawn_ok \in BOOLEAN : BuildSpawn(spawn_ok)

\* The child writes a line to stdout or stderr: "utf8" text, or "bytes" that
\* are not valid UTF-8. Writing into a pipe whose reader task has gone ends
\* the child (SIGPIPE).
ChildWrites(to_stdout, line) ==
    /\ child = "running"
    /\ child_written < MaxLines
    /\ IF (IF to_stdout THEN stdout_task ELSE stderr_task) = "done"
       THEN /\ child' = "exit_nonzero"
            /\ UNCHANGED <<out_pipe, err_pipe, child_written>>
       ELSE /\ out_pipe' = IF to_stdout THEN Append(out_pipe, line) ELSE out_pipe
            /\ err_pipe' = IF to_stdout THEN err_pipe ELSE Append(err_pipe, line)
            /\ child_written' = child_written + 1
            /\ UNCHANGED child
    /\ UNCHANGED <<disconnected_at, call_results, dpc, dreq, release_dir, chan,
                   rx_alive, delivered, lines_dropped, chunks_lost, calls, stdout_task,
                   stderr_task, release_dir_exists>>
    /\ UNCHANGED notDeploy

ChildWriteStep ==
    \E to_stdout \in BOOLEAN, line \in {"utf8", "bytes"} : ChildWrites(to_stdout, line)

ChildExits(status) ==
    /\ child = "running"
    /\ child' = status
    /\ UNCHANGED <<disconnected_at, call_results, dpc, dreq, release_dir, chan,
                   rx_alive, delivered, lines_dropped, chunks_lost, calls,
                   child_written, out_pipe, err_pipe, stdout_task, stderr_task,
                   release_dir_exists>>
    /\ UNCHANGED notDeploy

ChildExitStep == \E status \in {"exit_0", "exit_nonzero"} : ChildExits(status)

ReaderNext_NoEndOfFile(task, pipe) ==
    IF task = "reading" /\ pipe # <<>> /\ Head(pipe) = "utf8"
    THEN [task |-> "sending", pipe |-> Tail(pipe), sent |-> FALSE]
    ELSE IF task = "reading" /\ pipe # <<>>
    THEN [task |-> "done", pipe |-> Tail(pipe), sent |-> FALSE]
    ELSE IF task = "sending" /\ ~rx_alive
    THEN [task |-> "done", pipe |-> pipe, sent |-> FALSE]
    ELSE IF task = "sending" /\ Len(chan) < ChanCap
    THEN [task |-> "reading", pipe |-> pipe, sent |-> TRUE]
    ELSE [task |-> task, pipe |-> pipe, sent |-> FALSE]

\* One turn of a reader task's loop. reader.next_line().await yields Ok(Some)
\* for a line of text, Err for a line that is not UTF-8, which ends the
\* `while let Ok(Some(line))` loop, and Ok(None) once the child has closed the
\* pipe; tx.send(..).await waits for room and fails once the receiver is gone.
ReaderNext(task, pipe) ==
    IF task = "reading" /\ pipe # <<>> /\ Head(pipe) = "utf8"
    THEN [task |-> "sending", pipe |-> Tail(pipe), sent |-> FALSE]
    ELSE IF task = "reading" /\ pipe # <<>>
    THEN [task |-> "done", pipe |-> Tail(pipe), sent |-> FALSE]
    ELSE IF task = "reading" /\ child \in {"exit_0", "exit_nonzero"}
    THEN [task |-> "done", pipe |-> pipe, sent |-> FALSE]
    ELSE IF task = "sending" /\ ~rx_alive
    THEN [task |-> "done", pipe |-> pipe, sent |-> FALSE]
    ELSE IF task = "sending" /\ Len(chan) < ChanCap
    THEN [task |-> "reading", pipe |-> pipe, sent |-> TRUE]
    ELSE [task |-> task, pipe |-> pipe, sent |-> FALSE]

StdoutReader ==
    /\ stdout_task \in {"reading", "sending"}
    /\ ReaderNext(stdout_task, out_pipe).task # stdout_task
    /\ stdout_task' = ReaderNext(stdout_task, out_pipe).task
    /\ out_pipe' = ReaderNext(stdout_task, out_pipe).pipe
    /\ chan' = IF ReaderNext(stdout_task, out_pipe).sent
               THEN Append(chan, ReaderChunk(LOG_OUT)) ELSE chan
    /\ UNCHANGED <<disconnected_at, call_results, dpc, dreq, release_dir, rx_alive,
                   delivered, lines_dropped, chunks_lost, calls, child, child_written,
                   err_pipe, stderr_task, release_dir_exists>>
    /\ UNCHANGED notDeploy

StderrReader ==
    /\ stderr_task \in {"reading", "sending"}
    /\ ReaderNext(stderr_task, err_pipe).task # stderr_task
    /\ stderr_task' = ReaderNext(stderr_task, err_pipe).task
    /\ err_pipe' = ReaderNext(stderr_task, err_pipe).pipe
    /\ chan' = IF ReaderNext(stderr_task, err_pipe).sent
               THEN Append(chan, ReaderChunk(LOG_ERR)) ELSE chan
    /\ UNCHANGED <<disconnected_at, call_results, dpc, dreq, release_dir, rx_alive,
                   delivered, lines_dropped, chunks_lost, calls, child, child_written,
                   out_pipe, stdout_task, release_dir_exists>>
    /\ UNCHANGED notDeploy

\* child.wait() and the join of both reader tasks have completed: execute_build
\* returns, and the task logs the outcome.
BuildReturns ==
    /\ dpc = "building"
    /\ child \in {"exit_0", "exit_nonzero"}
    /\ stdout_task = "done"
    /\ stderr_task = "done"
    /\ IF child = "exit_0"
       THEN /\ call_results' = Append(call_results, TRUE)
            /\ DoSendLog(LOG_RESTARTING)
            /\ calls' = Append(calls, "restart")
            /\ dpc' = "restarting"
            /\ UNCHANGED release_dir_exists
       ELSE BuildFailed
    /\ UNCHANGED <<disconnected_at, dreq, release_dir, rx_alive, delivered, child,
                   child_written, out_pipe, err_pipe, stdout_task, stderr_task>>
    /\ UNCHANGED notDeploy

\* svc_mgr.restart returned (its result is discarded); the completion line.
RestartReturns(ok) ==
    /\ dpc = "restarting"
    /\ call_results' = Append(call_results, ok)
    /\ DoSendLog(LOG_COMPLETE)
    /\ dpc' = "done"
    /\ UNCHANGED <<disconnected_at, dreq, release_dir, rx_alive, delivered, calls,
                   child, child_written, out_pipe, err_pipe, stdout_task, stderr_task,
                   release_dir_exists>>
    /\ UNCHANGED notDeploy

RestartStep == \E ok \in BOOLEAN : RestartReturns(ok)

\* The client takes the next chunk off the stream.
ClientRecv ==
    /\ rx_alive
    /\ chan # <<>>
    /\ delivered' = Append(delivered, Head(chan))
    /\ chan' = Tail(chan)
    /\ UNCHANGED <<disconnected_at, call_results, dpc, dreq, release_dir, rx_alive,
                   lines_dropped, chunks_lost, calls, child, child_written, out_pipe,
                   err_pipe, stdout_task, stderr_task, release_dir_exists>>
    /\ UNCHANGED notDeploy

\* The client goes away: the receiver and what it buffered are dropped.
ClientDisconnect ==
    /\ rx_alive
    /\ rx_alive' = FALSE
    /\ disconnected_at' = dpc
    /\ chan' = <<>>
    /\ UNCHANGED <<call_results, dpc, dreq, release_dir, delivered, lines_dropped,
                   chunks_lost, calls, child, child_written, out_pipe, err_pipe,
                   stdout_task, stderr_task, release_dir_exists>>
    /\ UNCHANGED notDeploy

(***************************************************************************)
(* server.rs: a second call of stream_deployment whose task runs while the *)
(* first one does. Each call moves its own req and its own tx into the     *)
(* task it spawns; of the second task only the chunks it produces are      *)
(* followed.                                                               *)
(***************************************************************************)
MaxPeerChunks == 2     \* chunks the second deployment produces at most

PeerContents == <<LOG_CLONE_START, LOG_BUILD_START, LOG_OUT, LOG_ERR>>

PeerIdle ==
    /\ peer_req = NoDeployRequest
    /\ peer_chan = <<>>
    /\ peer_sent = 0

\* The handler is called for the second request.
PeerRequest(trace_id) ==
    /\ peer_req = NoDeployRequest
    /\ peer_req' = [domain_name |-> <<"e", "x">>, app_id |-> <<"a", "1">>,
                    trace_id |-> trace_id]
    /\ UNCHANGED <<peer_chan, peer_sent>>
    /\ UNCHANGED notPeer

PeerRequestStep == \E trace_id \in TraceIds : PeerRequest(trace_id)

\* The second task, or one of its reader tasks, produces its next chunk.
PeerSend ==
    /\ peer_req # NoDeployRequest
    /\ peer_sent < MaxPeerChunks
    /\ peer_sent' = peer_sent + 1
    /\ peer_chan' = IF Len(peer_chan) < ChanCap
                    THEN Append(peer_chan,
                                ChunkOf(peer_req, PeerContents[(peer_sent % 4) + 1]))
                    ELSE peer_chan
    /\ UNCHANGED peer_req
    /\ UNCHANGED notPeer

\* The first request, with a domain and an application id the pipeline accepts.
TraceRequest ==
    \E trace_id \in TraceIds, timestamp \in Timestamps :
        stream_deployment(<<"e", "x">>, <<"a", "1">>, trace_id, timestamp)

(***************************************************************************)
(* sys/cleanup.rs: SystemReleaseManager::prune_old_releases.               *)
(*                                                                         *)
(* A path is a sequence of components. The application lives in            *)
(* /srv/app; /var is a symbolic link to /srv, so /var/app/releases names   *)
(* the same directory through a link.                                      *)
(***************************************************************************)
MaxReleases == 5       \* release directories on disk at most
MaxKeep == 3           \* largest keep_count tried

DigitChars == <<"0", "1", "2", "3", "4", "5", "6", "7", "8", "9">>

\* The byte value of an ASCII digit.
CharCode(c) == 47 + (CHOOSE i \in 1..10 : DigitChars[i] = c)

\* The name of the n-th release: 2026022114175n.
ReleaseName(n) ==
    <<"2", "0", "2", "6", "0", "2", "2", "1", "1", "4", "1", "7", "5">> \o <<DigitChars[n + 1]>>

\* What read_dir may find in the releases directory besides releases: a
\* directory with another name, a 13-digit directory, a 14-digit file and a
\* 14-digit symbolic link.
StrayEntries ==
    { [name |-> <<"t", "m", "p">>, kind |-> "dir"],
      [name |-> SubSeq(ReleaseName(0), 1, 13), kind |-> "dir"],
      [name |-> ReleaseName(0), kind |-> "file"],
      [name |-> ReleaseName(9), kind |-> "symlink"] }

ReleaseEntries == { [name |-> ReleaseName(n), kind |-> "dir"] : n \in 1..MaxReleases }

PhysReleases == <<"srv", "app", "releases">>
LinkedReleases == <<"var", "app", "releases">>
CurrentLink == <<"srv", "app", "current">>
StableLink == <<"srv", "app", "stable">>
InvalidSentinel == <<"dev", "null", "invalid">>

\* The symbolic links of the tree: /var, <base>/current when it exists, and
\* <base>/stable, which points at the oldest release through /var.
LinkTarget(path) ==
    IF path = <<"var">> THEN <<"srv">>
    ELSE IF path = CurrentLink /\ current_target # <<>> THEN current_target
    ELSE IF path = StableLink THEN LinkedReleases \o <<ReleaseName(1)>>
    ELSE <<>>

\* Follows every symbolic link on the way and yields the physical path.
RECURSIVE ResolveLinks(_, _)
ResolveLinks(path, fuel) ==
    LET linked == {i \in 1..Len(path) : LinkTarget(SubSeq(path, 1, i)) # <<>>}
        first == CHOOSE i \in linked : \A j \in linked : i <= j
    IN IF linked = {} \/ fuel = 0 THEN path
       ELSE ResolveLinks(LinkTarget(SubSeq(path, 1, first))
                            \o SubSeq(path, first + 1, Len(path)), fuel - 1)

Physical(path) == ResolveLinks(path, 4)

\* The directories that exist, by physical path.
ExistingDirs ==
    {<<"srv">>, <<"srv", "app">>, <<"srv", "other">>}
        \cup (IF releases_exists THEN {PhysReleases} ELSE {})
        \cup {PhysReleases \o <<e.name>> : e \in {x \in rel_entries : x.kind = "dir"}}

\* fs::canonicalize: Ok(physical path) when the path leads to something that
\* exists, Err otherwise (<<>> here).
Canonicalize(path) ==
    IF Physical(path) \in ExistingDirs THEN Physical(path) ELSE <<>>

is_valid_timestamp_AnyLength(name) ==
    /\ \A i \in 1..Len(name) : \E d \in 1..10 : DigitChars[d] = name[i]

\* name_str.len() == 14 && name_str.chars().all(|c| c.is_ascii_digit())
is_valid_timestamp(name) ==
    /\ Len(name) = 14
    /\ \A i \in 1..Len(name) : \E d \in 1..10 : DigitChars[d] = name[i]

\* Byte-wise lexicographic order, the order of PathBuf under one parent.
RECURSIVE LexLess(_, _)
LexLess(a, b) ==
    IF a = <<>> THEN b # <<>>
    ELSE IF b = <<>> THEN FALSE
    ELSE IF Head(a) = Head(b) THEN LexLess(Tail(a), Tail(b))
    ELSE CharCode(Head(a)) < CharCode(Head(b))

\* paths.sort()
RECURSIVE SortNames(_)
SortNames(names) ==
    IF names = {} THEN <<>>
    ELSE LET least == CHOOSE n \in names : \A m \in names \ {n} : LexLess(n, m)
         IN <<least>> \o SortNames(names \ {least})

\* The entries the read_dir loop pushes: directories named by a timestamp.
ReleasePaths == { e.name : e \in {x \in rel_entries : x.kind = "dir" /\ is_valid_timestamp(x.name)} }

\* canonicalize(&current_symlink) or the sentinel.
ActiveReleaseTarget ==
    IF Canonicalize(CurrentLink) # <<>> THEN Canonicalize(CurrentLink) ELSE InvalidSentinel

TargetCanonical_AsGiven(path) == path

\* canonicalize(path) or the path as given.
TargetCanonical(path) ==
    IF Canonicalize(path) # <<>> THEN Canonicalize(path) ELSE path

PathsToDelete_Newest(keep_count) ==
    LET sorted == SortNames(ReleasePaths)
    IN IF Len(sorted) <= keep_count THEN <<>>
       ELSE SubSeq(sorted, keep_count + 1, Len(sorted))

\* &paths[0..prune_count]
PathsToDelete(keep_count) ==
    LET sorted == SortNames(ReleasePaths)
    IN IF Len(sorted) <= keep_count THEN <<>>
       ELSE SubSeq(sorted, 1, Len(sorted) - keep_count)

Removed_StopAtFailure(candidates, skipped, undeletable) ==
    LET bad == {i \in 1..Len(candidates) :
                   candidates[i] \in undeletable /\ candidates[i] \notin skipped}
        first == IF bad = {} THEN Len(candidates) + 1
                 ELSE CHOOSE i \in bad : \A j \in bad : i <= j
    IN {candidates[i] : i \in 1..(first - 1)} \ skipped

\* The deletion loop: a candidate that is the active release is skipped, a
\* failing remove_dir_all is logged, and the loop goes on in both cases.
Removed(candidates, skipped, undeletable) ==
    ({candidates[i] : i \in 1..Len(candidates)} \ skipped) \ undeletable

\* ret and count are the Result the call returns; the other fields record
\* what the call found (before, total) and what it did.
NoPrune == [ret |-> "none", count |-> 0, deleted |-> {}, skipped |-> {}, failed |-> {},
            candidates |-> <<>>, keep_count |-> 0, total |-> 0, before |-> {}]

\* releases_dir is the path the caller passed; read_ok is whether read_dir
\* succeeded; undeletable are the directories remove_dir_all fails on.
prune_old_releases(releases_dir, keep_count, read_ok, undeletable) ==
    /\ prune_calls = 0
    /\ prune_calls' = prune_calls + 1
    /\ IF ~releases_exists
       THEN /\ prune_last' = [NoPrune EXCEPT !.ret = "Ok", !.keep_count = keep_count]
            /\ UNCHANGED rel_entries
       ELSE IF ~read_ok
       THEN /\ prune_last' = [NoPrune EXCEPT !.ret = "Err", !.keep_count = keep_count]
            /\ UNCHANGED rel_entries
       ELSE \E candidates \in {PathsToDelete(keep_count)}, active \in {ActiveReleaseTarget} :
            \E skipped \in {{candidates[i] : i \in {j \in 1..Len(candidates) :
                                TargetCanonical(releases_dir \o <<candidates[j]>>) = active}}} :
            \E deleted \in {Removed(candidates, skipped, undeletable)} :
               /\ prune_last' = [ret |-> "Ok",
                                 count |-> Cardinality(deleted),
                                 deleted |-> {PhysReleases \o <<n>> : n \in deleted},
                                 skipped |-> skipped,
                                 failed |-> {candidates[i] : i \in 1..Len(candidates)}
                                               \cap (undeletable \ skipped),
                                 candidates |-> candidates,
                                 keep_count |-> keep_count,
                                 total |-> Cardinality(ReleasePaths),
                                 before |-> ReleasePaths]
               /\ rel_entries' = {e \in rel_entries : ~(e.kind = "dir" /\ e.name \in deleted)}
    /\ UNCHANGED <<releases_exists, current_target>>
    /\ UNCHANGED notPrune

PruneStep ==
    \E releases_dir \in {PhysReleases, LinkedReleases}, keep_count \in 0..MaxKeep,
       read_ok \in BOOLEAN,
       undeletable \in {{}} \cup {{ReleaseName(n)} : n \in 1..MaxReleases} :
        prune_old_releases(releases_dir, keep_count, read_ok, undeletable)

\* Where `current` may point: nowhere (no link), at a release by its physical
\* path or through /var, at <base>/stable, outside the releases, or at a
\* release that is not on disk.
CurrentTargets ==
    {<<>>, StableLink, <<"srv", "other">>}
        \cup {PhysReleases \o <<ReleaseName(n)>> : n \in 1..MaxReleases}
        \cup {LinkedReleases \o <<ReleaseName(n)>> : n \in 1..MaxReleases}

PruneIdle ==
    /\ releases_exists = FALSE
    /\ rel_entries = {}
    /\ current_target = <<>>
    /\ prune_calls = 0
    /\ prune_last = NoPrune

(***************************************************************************)
(* sys/apache.rs: ApacheManager::create_vhost, remove_vhost and            *)
(* test_and_reload.                                                        *)
(***************************************************************************)
MaxProxyOps == 3       \* vhost operations in one behaviour

VhostDomains == { <<"a">>, <<"b">>, <<"a", " ", "b">> }

\* `ServerName {domain}` takes one argument: a domain with white space in it
\* renders a vhost that apache2ctl configtest refuses.
VhostParses(domain) ==
    \A i \in 1..Len(domain) : domain[i] \notin {" ", "\n"}

\* apache2ctl configtest over what sites-enabled includes: every enabled link
\* must lead to a file, and every included vhost must parse.
ConfigTestPasses(available, enabled) ==
    \A d \in enabled : d \in available /\ VhostParses(d)

NoProxyOp == [op |-> "none", domain |-> <<>>, cmds |-> <<>>, result |-> "none",
              missing |-> FALSE, prev_op |-> "none", prev_domain |-> <<>>,
              prev_result |-> "none"]

\* How a command started with Command::output() ends.
CommandOutcomes == {"spawn_error", "exit_0", "exit_nonzero"}

TestAndReload_Always(available, enabled, test_spawn_ok, reload) ==
    IF ~test_spawn_ok THEN [cmds |-> <<>>, result |-> "Err"]
    ELSE [cmds |-> <<[cmd |-> "apache2ctl configtest",
                      success |-> ConfigTestPasses(available, enabled)]>>
                   \o (IF reload # "spawn_error"
                       THEN <<[cmd |-> "systemctl reload apache2",
                               success |-> reload = "exit_0"]>>
                       ELSE <<>>),
          result |-> IF reload # "spawn_error" /\ ConfigTestPasses(available, enabled)
                     THEN "Ok" ELSE "Err"]

\* test_and_reload over the files as the caller left them: the commands it
\* ran and what it returned. A reload that cannot be spawned is an error; the
\* exit status of a reload that ran is not looked at.
TestAndReload(available, enabled, test_spawn_ok, reload) ==
    IF ~test_spawn_ok THEN [cmds |-> <<>>, result |-> "Err"]
    ELSE IF ~ConfigTestPasses(available, enabled)
    THEN [cmds |-> <<[cmd |-> "apache2ctl configtest", success |-> FALSE]>>,
          result |-> "Err"]
    ELSE IF reload = "spawn_error"
    THEN [cmds |-> <<[cmd |-> "apache2ctl configtest", success |-> TRUE]>>,
          result |-> "Err"]
    ELSE [cmds |-> <<[cmd |-> "apache2ctl configtest", success |-> TRUE],
                     [cmd |-> "systemctl reload apache2", success |-> reload = "exit_0"]>>,
          result |-> "Ok"]

ProxyIdle ==
    /\ sites_available = {}
    /\ sites_enabled = {}
    /\ proxy_ops = 0
    /\ proxy_last = NoProxyOp

\* The record of an operation: what it ran and returned, whether both files
\* of the domain were missing when it started, and the operation before it.
ProxyOp(op, domain, cmds, result) ==
    [op |-> op, domain |-> domain, cmds |-> cmds, result |-> result,
     missing |-> domain \notin sites_available /\ domain \notin sites_enabled,
     prev_op |-> proxy_last.op, prev_domain |-> proxy_last.domain,
     prev_result |-> proxy_last.result]

\* write_ok, link_ok: whether fs::write and fs::symlink succeed.
create_vhost(domain, write_ok, link_ok, test_spawn_ok, reload) ==
    /\ proxy_ops < MaxProxyOps
    /\ proxy_ops' = proxy_ops + 1
    /\ IF ~write_ok
       THEN /\ proxy_last' = ProxyOp("create_vhost", domain, <<>>, "Err")
            /\ UNCHANGED <<sites_available, sites_enabled>>
       ELSE IF domain \notin sites_enabled /\ ~link_ok
       THEN /\ sites_available' = sites_available \cup {domain}
            /\ proxy_last' = ProxyOp("create_vhost", domain, <<>>, "Err")
            /\ UNCHANGED sites_enabled
       ELSE /\ sites_available' = sites_available \cup {domain}
            /\ sites_enabled' = sites_enabled \cup {domain}
            /\ proxy_last' =
                 ProxyOp("create_vhost", domain,
                         TestAndReload(sites_available', sites_enabled',
                                       test_spawn_ok, reload).cmds,
                         TestAndReload(sites_available', sites_enabled',
                                       test_spawn_ok, reload).result)
    /\ UNCHANGED notProxy

\* rm_link_ok, rm_conf_ok: whether each remove_file succeeds when the file is
\* there; both results are discarded.
remove_vhost(domain, rm_link_ok, rm_conf_ok, test_spawn_ok, reload) ==
    /\ proxy_ops < MaxProxyOps
    /\ proxy_ops' = proxy_ops + 1
    /\ sites_enabled' = IF rm_link_ok THEN sites_enabled \ {domain} ELSE sites_enabled
    /\ sites_available' = IF rm_conf_ok THEN sites_available \ {domain} ELSE sites_available
    /\ proxy_last' =
         ProxyOp("remove_vhost", domain,
                 TestAndReload(sites_available', sites_enabled',
                               test_spawn_ok, reload).cmds,
                 TestAndReload(sites_available', sites_enabled',
                               test_spawn_ok, reload).result)
    /\ UNCHANGED notProxy

CreateVhostStep ==
    \E domain \in VhostDomains, write_ok, link_ok, test_spawn_ok \in BOOLEAN,
       reload \in CommandOutcomes :
        create_vhost(domain, write_ok, link_ok, test_spawn_ok, reload)

RemoveVhostStep ==
    \E domain \in VhostDomains, rm_link_ok, rm_conf_ok, test_spawn_ok \in BOOLEAN,
       reload \in CommandOutcomes :
        remove_vhost(domain, rm_link_ok, rm_conf_ok, test_spawn_ok, reload)

(***************************************************************************)
(* sys/ssl.rs: LinuxSslEngine::install_certificate, one action per file    *)
(* system call, so that every state another process could observe is a     *)
(* state of the model.                                                     *)
(***************************************************************************)
MaxInstalls == 3       \* install_certificate calls in one behaviour

Umasks == {\o022, \o027, \o077}

SslDomains == { <<"a">>, <<"b", ".", "c">>, <<".", ".">>, <<"a", "/", "b">>, <<>> }

SslDomainChars == {"a", "b", "c", "-", "."}

\* The two validation steps of install_certificate.
SslDomainRejected(domain_name) ==
    \/ domain_name = <<>>
    \/ Contains(domain_name, <<".", ".">>)
    \/ Contains(domain_name, <<"/">>)
    \/ \E i \in 1..Len(domain_name) : domain_name[i] \notin SslDomainChars

\* created_by: the number of the install_certificate call that created the file.
NoFile == [mode |-> -1, content |-> "none", created_by |-> 0]

NoSslDir == [dir_mode |-> -1, fullchain |-> NoFile, privkey |-> NoFile]

\* mode & !mask, over the low permission bits.
RECURSIVE ClearBits(_, _, _)
ClearBits(mode, mask, bits) ==
    IF bits = 0 THEN 0
    ELSE (IF mode % 2 = 1 /\ mask % 2 = 0 THEN 1 ELSE 0)
            + 2 * ClearBits(mode \div 2, mask \div 2, bits - 1)

\* open(2) with O_CREAT and O_TRUNC: the mode argument, cut by the umask, is
\* given to a file that did not exist; a file that exists keeps its mode.
OpenCreate(file, mode) ==
    [mode |-> IF file = NoFile THEN ClearBits(mode, umask, 9) ELSE file.mode,
     content |-> "empty",
     created_by |-> IF file = NoFile THEN ssl_installs ELSE file.created_by]

PrivkeyOpen_DefaultMode(file) == OpenCreate(file, \o666)

\* OpenOptions::new().write(true).create(true).truncate(true).mode(0o600).open(..)
PrivkeyOpen(file) == OpenCreate(file, \o600)

SslIdle ==
    /\ ssl_pc = "idle"
    /\ ssl_domain = <<>>
    /\ ssl_store = [d \in {x \in SslDomains : ~SslDomainRejected(x)} |-> NoSslDir]
    /\ ssl_installs = 0
    /\ ssl_result = "none"
    /\ umask = \o022

SslReturn(result) ==
    /\ ssl_pc' = "idle"
    /\ ssl_result' = result

SslGoto(pc) ==
    /\ ssl_pc' = pc
    /\ UNCHANGED ssl_result

\* install_certificate is called: the path traversal shield.
SslInstall(domain_name) ==
    /\ ssl_pc = "idle"
    /\ ssl_installs < MaxInstalls
    /\ ssl_installs' = ssl_installs + 1
    /\ ssl_domain' = domain_name
    /\ IF SslDomainRejected(domain_name)
       THEN SslReturn("Err")
       ELSE /\ ssl_pc' = "create_dir"
            /\ ssl_result' = "pending"
    /\ UNCHANGED <<ssl_store, umask>>
    /\ UNCHANGED notSsl

SslInstallStep == \E domain_name \in SslDomains : SslInstall(domain_name)

\* tokio_fs::create_dir_all(domain_path)
SslCreateDir(ok) ==
    /\ ssl_pc = "create_dir"
    /\ IF ok
       THEN /\ ssl_store' = [ssl_store EXCEPT ![ssl_domain].dir_mode =
                                IF @ = -1 THEN ClearBits(\o777, umask, 9) ELSE @]
            /\ SslGoto("chmod_dir")
       ELSE /\ SslReturn("Err")
            /\ UNCHANGED ssl_store
    /\ UNCHANGED <<ssl_domain, ssl_installs, umask>>
    /\ UNCHANGED notSsl

\* metadata + set_mode(0o750) + set_permissions on the directory
SslChmodDir(ok) ==
    /\ ssl_pc = "chmod_dir"
    /\ IF ok
       THEN /\ ssl_store' = [ssl_store EXCEPT ![ssl_domain].dir_mode = \o750]
            /\ SslGoto("write_fullchain")
       ELSE /\ SslReturn("Err")
            /\ UNCHANGED ssl_store
    /\ UNCHANGED <<ssl_domain, ssl_installs, umask>>
    /\ UNCHANGED notSsl

\* tokio_fs::write(&fullchain_path, ..)
SslWriteFullchain(ok) ==
    /\ ssl_pc = "write_fullchain"
    /\ IF ok
       THEN /\ ssl_store' = [ssl_store EXCEPT ![ssl_domain].fullchain =
                                [OpenCreate(@, \o666) EXCEPT !.content = "written"]]
            /\ SslGoto("chmod_fullchain")
       ELSE /\ SslReturn("Err")
            /\ UNCHANGED ssl_store
    /\ UNCHANGED <<ssl_domain, ssl_installs, umask>>
    /\ UNCHANGED notSsl

\* metadata + set_mode(0o644) + set_permissions on fullchain.pem
SslChmodFullchain(ok) ==
    /\ ssl_pc = "chmod_fullchain"
    /\ IF ok
       THEN /\ ssl_store' = [ssl_store EXCEPT ![ssl_domain].fullchain.mode = \o644]
            /\ SslGoto("open_privkey")
       ELSE /\ SslReturn("Err")
            /\ UNCHANGED ssl_store
    /\ UNCHANGED <<ssl_domain, ssl_installs, umask>>
    /\ UNCHANGED notSsl

\* The failure arm after use_secret: `let _ = remove_file(&privkey_path)`,
\* whose own failure (rm_ok = FALSE) goes unnoticed, then return Err.
SslCleanup(rm_ok) ==
    /\ ssl_store' = IF rm_ok THEN [ssl_store EXCEPT ![ssl_domain].privkey = NoFile]
                    ELSE ssl_store
    /\ SslReturn("Err")

\* Inside use_secret: the open of privkey.pem.
SslOpenPrivkey(ok, rm_ok) ==
    /\ ssl_pc = "open_privkey"
    /\ IF ok
       THEN /\ ssl_store' = [ssl_store EXCEPT ![ssl_domain].privkey = PrivkeyOpen(@)]
            /\ SslGoto("write_privkey")
       ELSE SslCleanup(rm_ok)
    /\ UNCHANGED <<ssl_domain, ssl_installs, umask>>
    /\ UNCHANGED notSsl

\* file.write_all(secret_bytes)
SslWritePrivkey(ok, rm_ok) ==
    /\ ssl_pc = "write_privkey"
    /\ IF ok
       THEN /\ ssl_store' = [ssl_store EXCEPT ![ssl_domain].privkey.content = "written"]
            /\ SslGoto("sync_privkey")
       ELSE SslCleanup(rm_ok)
    /\ UNCHANGED <<ssl_domain, ssl_installs, umask>>
    /\ UNCHANGED notSsl

\* file.sync_all(), then Ok(())
SslSyncPrivkey(ok, rm_ok) ==
    /\ ssl_pc = "sync_privkey"
    /\ IF ok
       THEN /\ ssl_store' = [ssl_store EXCEPT ![ssl_domain].privkey.content = "synced"]
            /\ SslReturn("Ok")
       ELSE SslCleanup(rm_ok)
    /\ UNCHANGED <<ssl_domain, ssl_installs, umask>>
    /\ UNCHANGED notSsl

SslCreateDirStep == \E ok \in BOOLEAN : SslCreateDir(ok)

SslChmodDirStep == \E ok \in BOOLEAN : SslChmodDir(ok)

SslWriteFullchainStep == \E ok \in BOOLEAN : SslWriteFullchain(ok)

SslChmodFullchainStep == \E ok \in BOOLEAN : SslChmodFullchain(ok)

SslOpenPrivkeyStep == \E ok, rm_ok \in BOOLEAN : SslOpenPrivkey(ok, rm_ok)

SslWritePrivkeyStep == \E ok, rm_ok \in BOOLEAN : SslWritePrivkey(ok, rm_ok)

SslSyncPrivkeyStep == \E ok, rm_ok \in BOOLEAN : SslSyncPrivkey(ok, rm_ok)

(***************************************************************************)
(* sys/secrets.rs: ProviderCredential.  Memory is modelled as the byte     *)
(* sequences that stay in RAM, also after their owner is gone.             *)
(***************************************************************************)
MaxSecretOps == 4      \* operations on credentials in one behaviour

SecretBytes == {107, 121}

SecretPool == { <<a>> : a \in SecretBytes } \cup { <<a, b>> : a, b \in SecretBytes }

AllZero(bytes) == \A i \in 1..Len(bytes) : bytes[i] = 0

\* Zeroize for Vec<u8> and String: every byte of the buffer becomes 0.
Zeroized(bytes) == [i \in 1..Len(bytes) |-> 0]

SecretIdle ==
    /\ sec_state = "none"
    /\ sec_bytes = <<>>
    /\ sec_source = <<>>
    /\ sec_seen = <<>>
    /\ sec_log = <<>>

\* ProviderCredential::new(raw_token): the vector is moved into the Secret.
SecretNew(raw_token) ==
    /\ sec_state \in {"none", "dropped"}
    /\ Len(sec_log) < MaxSecretOps
    /\ sec_state' = "live"
    /\ sec_bytes' = raw_token
    /\ sec_source' = <<>>
    /\ sec_log' = Append(sec_log, "new")
    /\ UNCHANGED sec_seen
    /\ UNCHANGED notSecret

FromStringSource_Kept(s) == s

\* What from_string leaves in the buffer of the source string: s.zeroize().
FromStringSource(s) == Zeroized(s)

\* ProviderCredential::from_string(s): copy the bytes, scrub the source.
SecretFromString(s) ==
    /\ sec_state \in {"none", "dropped"}
    /\ Len(sec_log) < MaxSecretOps
    /\ sec_state' = "live"
    /\ sec_bytes' = [i \in 1..Len(s) |-> s[i]]
    /\ sec_source' = FromStringSource(s)
    /\ sec_log' = Append(sec_log, "from_string")
    /\ UNCHANGED sec_seen
    /\ UNCHANGED notSecret

\* use_secret(action): the callback receives a view of the bytes.
SecretUse ==
    /\ sec_state \in {"live", "destroyed"}
    /\ Len(sec_log) < MaxSecretOps
    /\ sec_seen' = sec_bytes
    /\ sec_log' = Append(sec_log, "use_secret")
    /\ UNCHANGED <<sec_state, sec_bytes, sec_source>>
    /\ UNCHANGED notSecret

\* impl Zeroize for ProviderCredential: the body is empty.
SecretZeroize ==
    /\ sec_state \in {"live", "destroyed"}
    /\ Len(sec_log) < MaxSecretOps
    /\ sec_log' = Append(sec_log, "zeroize")
    /\ UNCHANGED <<sec_state, sec_bytes, sec_source, sec_seen>>
    /\ UNCHANGED notSecret

\* destroy(): called by clone_repo, defined outside agent/src; it overwrites
\* the backing bytes with zeroes.
DestroyedBytes(bytes) == Zeroized(bytes)

SecretDestroy ==
    /\ sec_state = "live"
    /\ Len(sec_log) < MaxSecretOps
    /\ sec_state' = "destroyed"
    /\ sec_bytes' = DestroyedBytes(sec_bytes)
    /\ sec_log' = Append(sec_log, "destroy")
    /\ UNCHANGED <<sec_source, sec_seen>>
    /\ UNCHANGED notSecret

\* Drop of the token field, a Secret<Vec<u8>>: zeroize, then deallocate.
DroppedBytes(bytes) == Zeroized(bytes)

SecretDrop ==
    /\ sec_state \in {"live", "destroyed"}
    /\ Len(sec_log) < MaxSecretOps
    /\ sec_state' = "dropped"
    /\ sec_bytes' = DroppedBytes(sec_bytes)
    /\ sec_log' = Append(sec_log, "drop")
    /\ UNCHANGED <<sec_source, sec_seen>>
    /\ UNCHANGED notSecret

SecretNewStep == \E raw_token \in SecretPool : SecretNew(raw_token)

SecretFromStringStep == \E s \in SecretPool : SecretFromString(s)

(***************************************************************************)
(* sys/git.rs: SystemGitManager::clone_repo with its transient SSH key     *)
(* file, one action per step that can fail.                                *)
(***************************************************************************)
GitArgs == { <<"g">>, <<"-", "g">> }

NoGitRequest == [repo_url |-> <<>>, branch |-> <<>>, with_key |-> FALSE]

NoKeyFile == [exists |-> FALSE, content |-> <<>>, synced |-> FALSE, mode |-> -1]

NoResidue == [present |-> FALSE, content |-> <<>>, synced |-> FALSE]

\* &[0u8; 4096]
ScrubBlock == [i \in 1..4096 |-> 0]

\* write_all(data) at offset off of a file holding content.
WriteAt(content, off, data) ==
    LET end == IF off + Len(data) > Len(content) THEN off + Len(data) ELSE Len(content)
    IN [i \in 1..end |-> IF i > off /\ i <= off + Len(data) THEN data[i - off]
                          ELSE content[i]]

GitIdle ==
    /\ git_pc = "idle"
    /\ git_req = NoGitRequest
    /\ key_file = NoKeyFile
    /\ key_residue = NoResidue
    /\ git_exit = "none"
    /\ git_result = "none"

\* Every return: the NamedTempFile guard, if any, is dropped and unlinks the
\* file with whatever it holds; a credential not yet dropped is dropped.
GitReturn(result) ==
    /\ git_pc' = "returned"
    /\ git_result' = result
    /\ key_file' = NoKeyFile
    /\ key_residue' = IF key_file.exists
                      THEN [present |-> TRUE, content |-> key_file.content,
                            synced |-> key_file.synced]
                      ELSE key_residue
    /\ IF git_req.with_key /\ sec_state \in {"live", "destroyed"}
       THEN /\ sec_state' = "dropped"
            /\ sec_bytes' = DroppedBytes(sec_bytes)
            /\ sec_log' = Append(sec_log, "drop")
       ELSE UNCHANGED <<sec_state, sec_bytes, sec_log>>

\* clone_repo is called; the argument injection guard.
clone_repo(repo_url, branch, with_key) ==
    /\ git_pc = "idle"
    /\ with_key => sec_state = "live"
    /\ git_req' = [repo_url |-> repo_url, branch |-> branch, with_key |-> with_key]
    /\ IF Head(repo_url) = "-" \/ Head(branch) = "-"
       THEN /\ git_pc' = "returned"
            /\ git_result' = "Err"
            /\ IF with_key
               THEN /\ sec_state' = "dropped"
                    /\ sec_bytes' = DroppedBytes(sec_bytes)
                    /\ sec_log' = Append(sec_log, "drop")
               ELSE UNCHANGED <<sec_state, sec_bytes, sec_log>>
       ELSE /\ git_pc' = IF with_key THEN "temp_create" ELSE "spawn"
            /\ git_result' = "pending"
            /\ UNCHANGED <<sec_state, sec_bytes, sec_log>>
    /\ UNCHANGED <<key_file, key_residue, git_exit, sec_source, sec_seen>>
    /\ UNCHANGED notGitSecret

CloneRepoStep ==
    \E repo_url \in GitArgs, branch \in GitArgs, with_key \in BOOLEAN :
        clone_repo(repo_url, branch, with_key)

\* NamedTempFile::new()
GitTempCreate(ok) ==
    /\ git_pc = "temp_create"
    /\ IF ok
       THEN /\ key_file' = [exists |-> TRUE, content |-> <<>>, synced |-> FALSE,
                            mode |-> \o600]
            /\ git_pc' = "temp_chmod"
            /\ UNCHANGED <<key_residue, git_result, sec_state, sec_bytes, sec_log>>
       ELSE GitReturn("Err")
    /\ UNCHANGED <<git_req, git_exit, sec_source, sec_seen>>
    /\ UNCHANGED notGitSecret

\* metadata, set_mode(0o600), set_permissions
GitTempChmod(ok) ==
    /\ git_pc = "temp_chmod"
    /\ IF ok
       THEN /\ key_file' = [key_file EXCEPT !.mode = \o600]
            /\ git_pc' = "write_key"
            /\ UNCHANGED <<key_residue, git_result, sec_state, sec_bytes, sec_log>>
       ELSE GitReturn("Err")
    /\ UNCHANGED <<git_req, git_exit, sec_source, sec_seen>>
    /\ UNCHANGED notGitSecret

\* cred.use_secret(|secret| temp.write_all(secret)): on an error, written bytes
\* of the key are in the file.
GitWriteKey(written) ==
    /\ git_pc = "write_key"
    /\ written \in 0..Len(sec_bytes)
    /\ sec_seen' = sec_bytes
    /\ IF written = Len(sec_bytes)
       THEN /\ key_file' = [key_file EXCEPT !.content = sec_bytes]
            /\ git_pc' = "sync_key"
            /\ sec_log' = Append(sec_log, "use_secret")
            /\ UNCHANGED <<key_residue, git_result, sec_state, sec_bytes>>
       ELSE /\ git_pc' = "returned"
            /\ git_result' = "Err"
            /\ key_file' = NoKeyFile
            /\ key_residue' = [present |-> TRUE,
                               content |-> SubSeq(sec_bytes, 1, written),
                               synced |-> FALSE]
            /\ sec_state' = "dropped"
            /\ sec_bytes' = DroppedBytes(sec_bytes)
            /\ sec_log' = sec_log \o <<"use_secret", "drop">>
    /\ UNCHANGED <<git_req, git_exit, sec_source>>
    /\ UNCHANGED notGitSecret

\* temp.as_file().sync_all()
GitSyncKey(ok) ==
    /\ git_pc = "sync_key"
    /\ IF ok
       THEN /\ key_file' = [key_file EXCEPT !.synced = TRUE]
            /\ git_pc' = "destroy"
            /\ UNCHANGED <<key_residue, git_result, sec_state, sec_bytes, sec_log>>
       ELSE GitReturn("Err")
    /\ UNCHANGED <<git_req, git_exit, sec_source, sec_seen>>
    /\ UNCHANGED notGitSecret

\* cred.destroy(); the end of the block then drops cred.
GitDestroy ==
    /\ git_pc = "destroy"
    /\ sec_state' = "dropped"
    /\ sec_bytes' = DroppedBytes(DestroyedBytes(sec_bytes))
    /\ sec_log' = sec_log \o <<"destroy", "drop">>
    /\ git_pc' = "spawn"
    /\ UNCHANGED <<git_req, key_file, key_residue, git_exit, git_result,
                   sec_source, sec_seen>>
    /\ UNCHANGED notGitSecret

\* Command::new("git") ... .output().await
GitSpawn(outcome) ==
    /\ git_pc = "spawn"
    /\ git_exit' = outcome
    /\ IF outcome = "spawn_error"
       THEN GitReturn("Err")
       ELSE /\ git_pc' = "scrub"
            /\ UNCHANGED <<key_file, key_residue, git_result, sec_state, sec_bytes,
                           sec_log>>
    /\ UNCHANGED <<git_req, sec_source, sec_seen>>
    /\ UNCHANGED notGitSecret

\* The disk residue scrubbing block: seek, write_all, sync_all, each result
\* ignored; then the guard is dropped and the exit status decides the result.
GitScrub(seek_ok, write_ok, sync_ok) ==
    /\ git_pc = "scrub"
    /\ LET off == IF seek_ok THEN 0 ELSE Len(key_file.content)
           content == IF write_ok THEN WriteAt(key_file.content, off, ScrubBlock)
                      ELSE key_file.content
           synced == IF write_ok THEN sync_ok ELSE key_file.synced
       IN key_residue' = IF key_file.exists
                         THEN [present |-> TRUE, content |-> content, synced |-> synced]
                         ELSE key_residue
    /\ key_file' = NoKeyFile
    /\ git_pc' = "returned"
    /\ git_result' = IF git_exit = "exit_0" THEN "Ok" ELSE "Err"
    /\ UNCHANGED <<git_req, git_exit, sec_state, sec_bytes, sec_log, sec_source,
                   sec_seen>>
    /\ UNCHANGED notGitSecret

GitTempCreateStep == \E ok \in BOOLEAN : GitTempCreate(ok)

GitTempChmodStep == \E ok \in BOOLEAN : GitTempChmod(ok)

GitWriteKeyStep == \E written \in 0..2 : GitWriteKey(written)

GitSyncKeyStep == \E ok \in BOOLEAN : GitSyncKey(ok)

GitSpawnStep == \E outcome \in {"spawn_error", "exit_0", "exit_nonzero"} : GitSpawn(outcome)

GitScrubStep == \E seek_ok, write_ok, sync_ok \in BOOLEAN : GitScrub(seek_ok, write_ok, sync_ok)

(***************************************************************************)
(* DeleteDeployment: the teardown handler of the service facade.  The      *)
(* server.rs under agent/src does not carry it; it is modelled from its    *)
(* specification, over the managers of sys/systemd.rs and sys/jail.rs.     *)
(***************************************************************************)
MaxDeletes == 2        \* DeleteDeployment requests in one behaviour

TeardownOrder ==
    <<"stop_service", "remove_unit_file", "reload_daemon", "deprovision_user",
      "remove_web_root">>

DeleteDomains == { <<"e", "x">>, <<"a", ".", "b">>, <<"k">> }

NoDeleteRequest == [app_id |-> <<>>, domain_name |-> <<>>]

DeleteIdle ==
    /\ del_pc = "idle"
    /\ del_req = NoDeleteRequest
    /\ del_steps = <<>>
    /\ del_result = "none"
    /\ del_served = 0

\* The target of each teardown step.
TeardownTarget(step, req) ==
    CASE step = "stop_service" -> <<"kari-">> \o req.domain_name
      [] step = "remove_unit_file" -> <<"kari-">> \o req.domain_name \o <<".service">>
      [] step = "reload_daemon" -> <<>>
      [] step = "deprovision_user" -> <<"kari-app-">> \o req.app_id
      [] step = "remove_web_root" -> <<"/var/www/kari", "/">> \o req.domain_name

StepIndex(step) == CHOOSE i \in 1..Len(TeardownOrder) : TeardownOrder[i] = step

TeardownNext_Swallow(step, ok) ==
    IF StepIndex(step) = Len(TeardownOrder) THEN "returned"
    ELSE TeardownOrder[StepIndex(step) + 1]

\* Where the handler goes after a step: on, or out at the first failure.
TeardownNext(step, ok) ==
    IF ~ok \/ StepIndex(step) = Len(TeardownOrder) THEN "returned"
    ELSE TeardownOrder[StepIndex(step) + 1]

\* DeleteDeployment(app_id, domain_name) is received.
delete_deployment(app_id, domain_name) ==
    /\ del_pc \in {"idle", "returned"}
    /\ del_served < MaxDeletes
    /\ del_served' = del_served + 1
    /\ del_req' = [app_id |-> app_id, domain_name |-> domain_name]
    /\ del_steps' = <<>>
    /\ del_result' = "pending"
    /\ del_pc' = TeardownOrder[1]
    /\ UNCHANGED notDelete

DeleteDeploymentStep ==
    \E app_id \in AppIdPool, domain_name \in DeleteDomains :
        delete_deployment(app_id, domain_name)

\* One teardown step runs and succeeds or fails.
TeardownStep(ok) ==
    /\ del_pc \notin {"idle", "returned"}
    /\ del_steps' = Append(del_steps,
            [step |-> del_pc, target |-> TeardownTarget(del_pc, del_req), ok |-> ok])
    /\ del_pc' = TeardownNext(del_pc, ok)
    /\ del_result' = IF ~ok THEN "Err"
                     ELSE IF TeardownNext(del_pc, ok) = "returned" THEN "Ok"
                     ELSE del_result
    /\ UNCHANGED <<del_req, del_served>>
    /\ UNCHANGED notDelete

TeardownStepAny == \E ok \in BOOLEAN : TeardownStep(ok)

(***************************************************************************)
(* sys/jail.rs: LinuxJailManager::provision_app_user.                      *)
(***************************************************************************)
MaxProvisions == 3     \* provision_app_user calls in one behaviour

JailUsers == {"kari-app-a1", "kari-app-b2"}

JailIdle ==
    /\ sys_users = {}
    /\ jail_log = <<>>

\* `id -u <username>`: the probe may fail to start; when it runs it exits 0
\* exactly when the user exists.
ProbeOutcome(username, probe_spawn_ok) ==
    IF ~probe_spawn_ok THEN "spawn_error"
    ELSE IF username \in sys_users THEN "exists"
    ELSE "absent"

\* `useradd --system --shell /bin/false <username>`: it may fail to start;
\* when it runs it fails for a user that exists, and for a new user it
\* succeeds or fails as useradd_ok says.
UseraddOutcome(username, useradd_spawn_ok, useradd_ok) ==
    IF ~useradd_spawn_ok THEN "spawn_error"
    ELSE IF username \in sys_users \/ ~useradd_ok THEN "exit_nonzero"
    ELSE "exit_0"

\* The probe's answer is final only when the probe ran and exited 0.
NeedsUseradd(probe) == probe # "exists"

provision_app_user(username, probe_spawn_ok, useradd_spawn_ok, useradd_ok) ==
    /\ Len(jail_log) < MaxProvisions
    /\ LET probe == ProbeOutcome(username, probe_spawn_ok)
           useradd == IF NeedsUseradd(probe)
                      THEN UseraddOutcome(username, useradd_spawn_ok, useradd_ok)
                      ELSE "not_run"
       IN /\ sys_users' = IF useradd = "exit_0" THEN sys_users \cup {username}
                          ELSE sys_users
          /\ jail_log' = Append(jail_log,
                [username |-> username, probe |-> probe, useradd |-> useradd,
                 result |-> IF useradd \in {"not_run", "exit_0"} THEN "Ok" ELSE "Err",
                 users_after |-> sys_users'])
    /\ UNCHANGED notJail

ProvisionStep ==
    \E username \in JailUsers, probe_spawn_ok, useradd_spawn_ok, useradd_ok \in BOOLEAN :
        provision_app_user(username, probe_spawn_ok, useradd_spawn_ok, useradd_ok)

(***************************************************************************)
(* server.rs: manage_service, and LinuxSystemdManager::execute_systemctl   *)
(* of sys/systemd.rs behind the ServiceManager trait.                      *)
(***************************************************************************)
MaxSvcReqs == 2        \* ManageService requests in one behaviour

ServiceActions == -1..5

ServiceNames == { <<"n", "g">>, <<"a", "@", "1", ".", "s">>, <<"a", ";", "b">>,
                  <<"-", "x", " ", "y">> }

SystemctlStderr == {"Unit not found.", "Job failed."}

NoServiceRequest ==
    [action |-> -1, service_name |-> <<>>, calls |-> <<>>,
     response |-> [success |-> FALSE, exit_code |-> 0, stdout |-> <<>>, stderr |-> <<>>,
                   error_message |-> <<>>]]

ServiceIdle ==
    /\ svc_served = 0
    /\ svc_last = NoServiceRequest

ServiceCall_StopRestartSwapped(action, service_name) ==
    IF action = 0 THEN [kind |-> "start", args |-> <<"start", service_name>>]
    ELSE IF action = 1 THEN [kind |-> "restart", args |-> <<"restart", service_name>>]
    ELSE IF action = 2 THEN [kind |-> "stop", args |-> <<"stop", service_name>>]
    ELSE IF action = 3 THEN [kind |-> "reload_daemon", args |-> <<"daemon-reload">>]
    ELSE IF action = 4
    THEN [kind |-> "enable_and_start", args |-> <<"enable", "--now", service_name>>]
    ELSE [kind |-> "none", args |-> <<>>]

\* The match on req.action: the ServiceManager method called and the
\* arguments that method gives to systemctl.
ServiceCall(action, service_name) ==
    IF action = 0 THEN [kind |-> "start", args |-> <<"start", service_name>>]
    ELSE IF action = 1 THEN [kind |-> "stop", args |-> <<"stop", service_name>>]
    ELSE IF action = 2 THEN [kind |-> "restart", args |-> <<"restart", service_name>>]
    ELSE IF action = 3 THEN [kind |-> "reload_daemon", args |-> <<"daemon-reload">>]
    ELSE IF action = 4
    THEN [kind |-> "enable_and_start", args |-> <<"enable", "--now", service_name>>]
    ELSE [kind |-> "none", args |-> <<>>]

\* execute_systemctl: Err with the spawn error, Err with
\* "systemctl <args[0]> failed: <stderr>" on a non-zero exit, Ok otherwise.
execute_systemctl(args, outcome, stderr) ==
    IF outcome = "spawn_error"
    THEN [ok |-> FALSE, err |-> <<"Failed to spawn systemctl: ", "os error">>]
    ELSE IF outcome = "exit_nonzero"
    THEN [ok |-> FALSE, err |-> <<"systemctl ", args[1], " failed: ", stderr>>]
    ELSE [ok |-> TRUE, err |-> <<>>]

construct_error_response(err_msg) ==
    [success |-> FALSE, exit_code |-> -1, stdout |-> <<>>, stderr |-> err_msg,
     error_message |-> err_msg]

manage_service(action, service_name, outcome, stderr) ==
    /\ svc_served < MaxSvcReqs
    /\ svc_served' = svc_served + 1
    /\ LET call == ServiceCall(action, service_name)
           result == execute_systemctl(call.args, outcome, stderr)
       IN svc_last' =
            IF call.kind = "none"
            THEN [action |-> action, service_name |-> service_name, calls |-> <<>>,
                  response |-> construct_error_response(<<"Invalid service action">>)]
            ELSE [action |-> action, service_name |-> service_name,
                  calls |-> <<[kind |-> call.kind, args |-> call.args,
                               outcome |-> outcome, stderr |-> stderr]>>,
                  response |->
                     IF result.ok
                     THEN [success |-> TRUE, exit_code |-> 0,
                           stdout |-> <<"Service action ", action, " successful">>,
                           stderr |-> <<>>, error_message |-> <<>>]
                     ELSE construct_error_response(result.err)]
    /\ UNCHANGED notService

ManageServiceStep ==
    \E action \in ServiceActions, service_name \in ServiceNames,
       outcome \in CommandOutcomes, stderr \in SystemctlStderr :
        manage_service(action, service_name, outcome, stderr)

(***************************************************************************)
(* config.rs: AgentConfig::load, and str::parse::<u32> as it reads         *)
(* KARI_API_UID.                                                           *)
(***************************************************************************)
IsDigit(c) == \E d \in 1..10 : DigitChars[d] = c

DigitVal(c) == CHOOSE d \in 0..9 : DigitChars[d + 1] = c

U32Max == <<"4", "2", "9", "4", "9", "6", "7", "2", "9", "5">>

RECURSIVE StripZeros(_)
StripZeros(ds) ==
    IF Len(ds) > 1 /\ ds[1] = "0" THEN StripZeros(Tail(ds)) ELSE ds

\* a <= b for digit strings of the same length.
RECURSIVE DigitsLE(_, _)
DigitsLE(a, b) ==
    IF a = <<>> THEN TRUE
    ELSE IF DigitVal(a[1]) < DigitVal(b[1]) THEN TRUE
    ELSE IF DigitVal(a[1]) > DigitVal(b[1]) THEN FALSE
    ELSE DigitsLE(Tail(a), Tail(b))

Overflows(ds) ==
    LET t == StripZeros(ds)
    IN Len(t) > Len(U32Max) \/ (Len(t) = Len(U32Max) /\ ~DigitsLE(t, U32Max))

RECURSIVE DigitsValue(_)
DigitsValue(ds) ==
    IF ds = <<>> THEN 0
    ELSE DigitsValue(SubSeq(ds, 1, Len(ds) - 1)) * 10 + DigitVal(ds[Len(ds)])

\* u32::from_str: an optional leading `+`, then one or more decimal digits
\* and nothing else (no sign `-`, no blanks), of a value that fits 32 bits.
ParseU32(s) ==
    LET ds == IF s # <<>> /\ s[1] = "+" THEN Tail(s) ELSE s
    IN IF ds = <<>> \/ (\E i \in 1..Len(ds) : ~IsDigit(ds[i])) \/ Overflows(ds)
       THEN [ok |-> FALSE, val |-> 0]
       ELSE [ok |-> TRUE, val |-> DigitsValue(StripZeros(ds))]

RECURSIVE Decimal(_)
Decimal(n) ==
    IF n < 10 THEN <<DigitChars[n + 1]>>
    ELSE Append(Decimal(n \div 10), DigitChars[(n % 10) + 1])

\* The values KARI_API_UID is given; `set` is FALSE when it is not in the
\* environment.
EnvUids ==
    { [set |-> FALSE, value |-> <<>>] } \cup
    { [set |-> TRUE, value |-> v] :
        v \in { <<>>, <<"0">>, <<"1", "0", "0", "1">>, <<"+", "1", "0", "0", "2">>,
                <<"a", "p", "i">>, <<"-", "1">>, <<"1", "0", "0", "1", " ">>,
                <<"4", "2", "9", "4", "9", "6", "7", "2", "9", "6">> } }

DefaultSocketPath == <<"/", "var", "run", "kari", "agent.sock">>

\* The values KARI_SOCKET_PATH leads to, as path components.
SocketPaths == { DefaultSocketPath, <<"/">> }

\* Path::parent
Parent(path) ==
    IF Len(path) > 1 THEN [some |-> TRUE, path |-> SubSeq(path, 1, Len(path) - 1)]
    ELSE [some |-> FALSE, path |-> <<>>]

LoadUid_UnwrapOr(uid_var) ==
    IF uid_var.set /\ ParseU32(uid_var.value).ok
    THEN [panic |-> FALSE, uid |-> ParseU32(uid_var.value).val]
    ELSE [panic |-> FALSE, uid |-> 1001]

\* env::var("KARI_API_UID").expect(..).parse::<u32>().expect(..)
LoadUid(uid_var) ==
    IF uid_var.set /\ ParseU32(uid_var.value).ok
    THEN [panic |-> FALSE, uid |-> ParseU32(uid_var.value).val]
    ELSE [panic |-> TRUE, uid |-> 0]

(***************************************************************************)
(* main.rs: main(), from AgentConfig::load to the return.                  *)
(***************************************************************************)
MaxMainConns == 1      \* results of listener.accept() in one run of main()
MaxStreams == 2        \* RPC streams started in one run of main()

ProxyHosts == {"nginx", "apache", "none"}

NoSocketFile == [kind |-> "none", mode |-> <<>>, uid |-> 0, gid |-> "none"]

\* A socket file left by an earlier run.
StaleFile == [kind |-> "stale", mode |-> <<6, 6, 0>>, uid |-> 1001, gid |-> "api"]

\* The file UnixListener::bind makes: owned by the agent (root), mode by umask.
BoundFile == [kind |-> "bound", mode |-> <<7, 5, 5>>, uid |-> 0, gid |-> "root"]

\* The state of a process that has started and serves: what every other
\* part of the model runs in.
MainIdle ==
    /\ main_pc = "serve"
    /\ main_exit = "running"
    /\ env = [uid |-> [set |-> TRUE, value |-> Decimal(expected_uid)],
              socket_path |-> DefaultSocketPath]
    /\ host = [proxy |-> "nginx", dir |-> TRUE, file |-> NoSocketFile]
    /\ sock = [dir |-> TRUE,
               file |-> [kind |-> "bound", mode |-> <<6, 6, 0>>, uid |-> expected_uid,
                         gid |-> "api"]]
    /\ main_log = << [op |-> "discover", ok |-> TRUE], [op |-> "bind", ok |-> TRUE],
                     [op |-> "chmod", ok |-> TRUE], [op |-> "chown", ok |-> TRUE] >>
    /\ streams = <<>>

AfterStep_Continue(ok, next) == next

\* `?` on the result of a startup step: Err returns from main().
AfterStep(ok, next) == IF ok THEN next ELSE "done"

ExitAt(pc) == IF pc = "done" THEN "error" ELSE "running"

\* let config = AgentConfig::load(); socket_path.parent().ok_or(..)?
LoadConfig ==
    /\ main_pc = "load_config"
    /\ LET loaded == LoadUid(env.uid)
           pc == AfterStep(Parent(env.socket_path).some, "create_dir")
       IN IF loaded.panic
          THEN /\ main_pc' = "done"
               /\ main_exit' = "panic"
               /\ UNCHANGED expected_uid
          ELSE /\ expected_uid' = loaded.uid
               /\ main_pc' = pc
               /\ main_exit' = ExitAt(pc)
    /\ UNCHANGED <<conn_log, incoming, warnings, serving>>
    /\ UNCHANGED <<env, host, sock, main_log, streams>>
    /\ UNCHANGED notMainAccept

\* if !socket_dir.exists() { fs::create_dir_all(socket_dir)?; }
CreateDir(ok) ==
    /\ main_pc = "create_dir"
    /\ IF sock.dir
       THEN /\ main_pc' = "remove_stale"
            /\ UNCHANGED <<main_exit, sock, main_log>>
       ELSE /\ main_pc' = AfterStep(ok, "remove_stale")
            /\ main_exit' = ExitAt(main_pc')
            /\ sock' = [sock EXCEPT !.dir = ok]
            /\ main_log' = Append(main_log, [op |-> "create_dir_all", ok |-> ok])
    /\ UNCHANGED <<env, host, streams>>
    /\ UNCHANGED notMain

\* if socket_path.exists() { fs::remove_file(&socket_path)?; }
RemoveStale(ok) ==
    /\ main_pc = "remove_stale"
    /\ IF sock.file.kind = "none"
       THEN /\ main_pc' = "discover"
            /\ UNCHANGED <<main_exit, sock, main_log>>
       ELSE /\ main_pc' = AfterStep(ok, "discover")
            /\ main_exit' = ExitAt(main_pc')
            /\ sock' = IF ok THEN [sock EXCEPT !.file = NoSocketFile] ELSE sock
            /\ main_log' = Append(main_log, [op |-> "remove_file", ok |-> ok])
    /\ UNCHANGED <<env, host, streams>>
    /\ UNCHANGED notMain

\* discover_proxy_manager()?: nginx first, then apache, else Err.
Discover ==
    /\ main_pc = "discover"
    /\ LET ok == host.proxy \in {"nginx", "apache"}
       IN /\ main_pc' = AfterStep(ok, "bind")
          /\ main_exit' = ExitAt(main_pc')
          /\ main_log' = Append(main_log, [op |-> "discover", ok |-> ok])
    /\ UNCHANGED <<env, host, sock, streams>>
    /\ UNCHANGED notMain

\* UnixListener::bind(&socket_path)?
Bind(ok) ==
    /\ main_pc = "bind"
    /\ main_pc' = AfterStep(ok, "chmod")
    /\ main_exit' = ExitAt(main_pc')
    /\ sock' = IF ok THEN [sock EXCEPT !.file = BoundFile] ELSE sock
    /\ main_log' = Append(main_log, [op |-> "bind", ok |-> ok])
    /\ UNCHANGED <<env, host, streams>>
    /\ UNCHANGED notMain

\* fs::metadata(&socket_path)?, set_mode(0o660), fs::set_permissions(..)?
Chmod(ok) ==
    /\ main_pc = "chmod"
    /\ main_pc' = AfterStep(ok, "chown")
    /\ main_exit' = ExitAt(main_pc')
    /\ sock' = IF ok THEN [sock EXCEPT !.file.mode = <<6, 6, 0>>] ELSE sock
    /\ main_log' = Append(main_log, [op |-> "chmod", ok |-> ok])
    /\ UNCHANGED <<env, host, streams>>
    /\ UNCHANGED notMain

\* nix::unistd::chown(&socket_path, uid, gid).map_err(..)?, and with it the
\* last step that can fail before the server polls incoming_stream.
Chown(ok) ==
    /\ main_pc = "chown"
    /\ main_pc' = AfterStep(ok, "serve")
    /\ main_exit' = ExitAt(main_pc')
    /\ sock' = IF ok THEN [sock EXCEPT !.file.uid = expected_uid, !.file.gid = "api"]
                ELSE sock
    /\ main_log' = Append(main_log, [op |-> "chown", ok |-> ok])
    /\ serving' = IF main_pc' = "serve" THEN "running" ELSE serving
    /\ UNCHANGED <<expected_uid, conn_log, incoming, warnings>>
    /\ UNCHANGED <<env, host, streams>>
    /\ UNCHANGED notMainAccept

\* The accept loop of incoming_stream, polled by the server inside select!.
MainAccept ==
    /\ main_pc = "serve"
    /\ Len(conn_log) < MaxMainConns
    /\ \/ \E peer \in Uids, cred_ok \in BOOLEAN : AcceptConn(peer, cred_ok)
       \/ \E fatal \in BOOLEAN : AcceptError(fatal)

\* A client starts an RPC on a connection the guard let through.
StreamStart ==
    /\ main_pc = "serve"
    /\ \E i \in 1..Len(conn_log) : conn_log[i].yielded
    /\ Len(streams) < MaxStreams
    /\ streams' = Append(streams, "active")
    /\ UNCHANGED <<main_pc, main_exit, env, host, sock, main_log>>
    /\ UNCHANGED notMain

\* A handler task runs its stream to the end; tasks run for as long as the
\* runtime of main() lives.
StreamComplete(i) ==
    /\ main_pc \in {"serve", "cleanup"}
    /\ i \in 1..Len(streams)
    /\ streams[i] = "active"
    /\ streams' = [streams EXCEPT ![i] = "completed"]
    /\ UNCHANGED <<main_pc, main_exit, env, host, sock, main_log>>
    /\ UNCHANGED notMain

\* select!: the arm `_ = signal::ctrl_c()` completes; the server future, and
\* the listener it owns, is dropped with the select! statement.
Interrupt ==
    /\ main_pc = "serve"
    /\ main_pc' = "cleanup"
    /\ serving' = "ended"
    /\ UNCHANGED <<expected_uid, conn_log, incoming, warnings>>
    /\ UNCHANGED <<main_exit, env, host, sock, main_log, streams>>
    /\ UNCHANGED notMainAccept

\* select!: the arm `res = grpc_server` completes.
ServerEnded ==
    /\ main_pc = "serve"
    /\ serving = "ended"
    /\ main_pc' = "cleanup"
    /\ UNCHANGED <<main_exit, env, host, sock, main_log, streams>>
    /\ UNCHANGED notMain

\* if socket_path.exists() { let _ = fs::remove_file(socket_path); } Ok(())
\* The return of main() drops the runtime, and with it every task that has
\* not finished.
Cleanup(ok) ==
    /\ main_pc = "cleanup"
    /\ main_pc' = "done"
    /\ main_exit' = "ok"
    /\ IF sock.file.kind = "none"
       THEN UNCHANGED <<sock, main_log>>
       ELSE /\ sock' = IF ok THEN [sock EXCEPT !.file = NoSocketFile] ELSE sock
            /\ main_log' = Append(main_log, [op |-> "unlink", ok |-> ok])
    /\ streams' = [i \in 1..Len(streams) |->
                      IF streams[i] = "active" THEN "cancelled" ELSE streams[i]]
    /\ UNCHANGED <<env, host>>
    /\ UNCHANGED notMain

(***************************************************************************)
(* grpc/handlers.rs: AgentHandlers::activate_site, and                     *)
(* commands/site.rs: SiteActivator::activate with run_action.              *)
(***************************************************************************)
MaxSiteReqs == 2       \* ActivateSite requests in one behaviour

Whitespace == {" ", "\t", "\n"}

\* str::trim: the text without its leading and trailing whitespace.
RECURSIVE TrimStart(_)
TrimStart(s) ==
    IF s # <<>> /\ s[1] \in Whitespace THEN TrimStart(Tail(s)) ELSE s

RECURSIVE TrimEnd(_)
TrimEnd(s) ==
    IF s # <<>> /\ s[Len(s)] \in Whitespace THEN TrimEnd(SubSeq(s, 1, Len(s) - 1)) ELSE s

Trim_None(s) == s

Trim(s) == TrimEnd(TrimStart(s))

SiteIds == { <<>>, <<" ">>, <<"\t", " ">>, <<"s", "1">>, <<" ", "s">> }

SiteDomains == { <<>>, <<" ", "\n">>, <<"e", ".", "c">>, <<"e", " ">> }

OwnerUids == {-1, 0, 1, 1001}

SiteActivationAction ==
    {"CreateSystemUser", "ApplyHttpVhost", "IssueCertificate", "ApplyHttpsVhost"}

NoSiteRequest ==
    [site_id |-> <<>>, domain |-> <<>>, owner_uid |-> 0, action |-> "CreateSystemUser",
     ran |-> <<>>, ok |-> FALSE, err |-> "none"]

SiteIdle ==
    /\ site_served = 0
    /\ site_last = NoSiteRequest

\* map_action of the handler: each request action is the command action of
\* the same name.
map_action(action) == action

\* run_action: every variant is Ok(()).
run_action(action) == [ok |-> TRUE, ran |-> <<action>>]

\* SiteActivator::activate
activate(command) ==
    IF Trim(command.site_id) = <<>>
    THEN [ok |-> FALSE, err |-> "site id is required", ran |-> <<>>]
    ELSE IF Trim(command.domain) = <<>>
    THEN [ok |-> FALSE, err |-> "domain is required", ran |-> <<>>]
    ELSE IF command.owner_uid <= 0
    THEN [ok |-> FALSE, err |-> "owner uid must be positive", ran |-> <<>>]
    ELSE LET r == run_action(command.action)
         IN [ok |-> r.ok, err |-> "none", ran |-> r.ran]

\* AgentHandlers::activate_site: the request becomes a command, an Err of
\* activate is returned as it is, Ok gives ActivateSiteResponse { ok }.
activate_site(site_id, domain, owner_uid, action) ==
    /\ site_served < MaxSiteReqs
    /\ site_served' = site_served + 1
    /\ LET result == activate([site_id |-> site_id, domain |-> domain,
                               owner_uid |-> owner_uid, action |-> map_action(action)])
       IN site_last' = [site_id |-> site_id, domain |-> domain, owner_uid |-> owner_uid,
                        action |-> action, ran |-> result.ran, ok |-> result.ok,
                        err |-> result.err]
    /\ UNCHANGED notSite

ActivateSiteStep ==
    \E site_id \in SiteIds, domain \in SiteDomains, owner_uid \in OwnerUids,
       action \in SiteActivationAction :
        activate_site(site_id, domain, owner_uid, action)

(***************************************************************************)
(* server.rs, build.rs: who holds a Sender of the deployment's channel.    *)
(* The task owns tx until it returns; execute_build is given a clone and   *)
(* hands one clone to each reader task, which holds it until its loop      *)
(* ends. The stream of the client ends when no Sender is left.             *)
(***************************************************************************)
TaskRunning ==
    dpc \in {"spawned", "cloning", "jailing", "build_called", "building", "restarting"}

ReaderHoldsTx(task) == task \in {"reading", "sending"}

SendersHeld ==
    (IF TaskRunning THEN 1 ELSE 0)
    + (IF dpc = "building" THEN 1 ELSE 0)
    + (IF ReaderHoldsTx(stdout_task) THEN 1 ELSE 0)
    + (IF ReaderHoldsTx(stderr_task) THEN 1 ELSE 0)

(***************************************************************************)
(* sys/systemd.rs: LinuxSystemdManager::write_unit_file. Of the unit file  *)
(* the Environment lines are followed, the rest of the template is fixed   *)
(* text around the four fields of the configuration.                       *)
(***************************************************************************)
MaxUnitCalls == 1      \* write_unit_file calls in one behaviour
MaxEnvVars == 2        \* entries of config.env_vars at most

EnvKeys == { <<"K">>, <<"K", "\n", "X">> }

EnvValues == { <<>>, <<"v">>, <<"a", "\n", "b">>, <<"a", "\"", "b">>, <<"\\", "\"">>,
               <<"a", "\\">>, <<"\n", "\"", "\n">> }

\* The orders in which the map of up to MaxEnvVars entries may be iterated.
EnvMaps ==
    UNION { [1..n -> [key : EnvKeys, value : EnvValues]] : n \in 0..MaxEnvVars }

\* str::replace(from, to) for a one-character pattern.
RECURSIVE Replace(_, _, _)
Replace(s, from, to) ==
    IF s = <<>> THEN <<>>
    ELSE (IF Head(s) = from THEN to ELSE <<Head(s)>>) \o Replace(Tail(s), from, to)

\* v.replace('\n', "").replace('"', "\\\"")
SafeValue(v) == Replace(Replace(v, "\n", <<>>), "\"", <<"\\", "\"">>)

\* k.replace('\n', "")
SafeKey(k) == Replace(k, "\n", <<>>)

\* format!("Environment=\"{}={}\"\n", safe_k, safe_v)
EnvLine(k, v) ==
    <<"Environment=", "\"">> \o SafeKey(k) \o <<"=">> \o SafeValue(v) \o <<"\"", "\n">>

NoUnitFile == [lines |-> <<>>, mode |-> <<>>]

NoUnitCall == [env_vars |-> <<>>, env_strings |-> <<>>, result |-> "none"]

UnitIdle ==
    /\ unit_calls = 0
    /\ unit_last = NoUnitCall
    /\ unit_file = NoUnitFile

\* write_unit_file: the Environment lines, fs::write of the rendered unit,
\* then metadata and set_permissions(0o644).
write_unit_file(env_vars, write_ok, chmod_ok) ==
    /\ unit_calls < MaxUnitCalls
    /\ unit_calls' = unit_calls + 1
    /\ LET env_strings == [i \in 1..Len(env_vars) |->
                              EnvLine(env_vars[i].key, env_vars[i].value)]
       IN /\ unit_last' = [env_vars |-> env_vars, env_strings |-> env_strings,
                           result |-> IF write_ok /\ chmod_ok THEN "Ok" ELSE "Err"]
          /\ unit_file' = IF ~write_ok THEN unit_file
                          ELSE [lines |-> env_strings,
                                mode |-> IF chmod_ok THEN <<6, 4, 4>>
                                         ELSE IF unit_file = NoUnitFile THEN <<6, 4, 4>>
                                         ELSE unit_file.mode]
    /\ UNCHANGED notUnit

WriteUnitStep ==
    \E env_vars \in EnvMaps, write_ok, chmod_ok \in BOOLEAN :
        write_unit_file(env_vars, write_ok, chmod_ok)

(***************************************************************************)
(* server.rs: two calls of stream_deployment whose tasks run at the same   *)
(* time, followed for what they do to the file system. Every task works    *)
(* in the release_dir its handler computed from the domain and the clock.  *)
(***************************************************************************)
Deployments == {1, 2}

\* chrono::Utc::now().format("%Y%m%d%H%M%S"): the clock read to the second.
ClockSeconds == <<"20260221141759", "20260221141800">>

ConDomains == { <<"e", "x">>, <<"e", "y">> }

NoConRequest == [domain_name |-> <<>>, timestamp |-> ""]

\* let release_dir = format!("{}/releases/{}", base_dir, timestamp);
ConReleaseDir(d) == ReleaseDir(con_req[d].domain_name, con_req[d].timestamp)

ConIdle ==
    /\ con_now = 1
    /\ con_pc = [d \in Deployments |-> "idle"]
    /\ con_req = [d \in Deployments |-> NoConRequest]
    /\ con_clean = [d \in Deployments |-> FALSE]
    /\ con_dirs = {}

\* A second passes.
ConTick ==
    /\ con_now < Len(ClockSeconds)
    /\ con_now' = con_now + 1
    /\ UNCHANGED <<con_pc, con_req, con_clean, con_dirs>>
    /\ UNCHANGED notCon

\* The handler: timestamp, release_dir, tokio::spawn of the task.
ConRequest(d, domain_name) ==
    /\ con_pc[d] = "idle"
    /\ con_req' = [con_req EXCEPT ![d] = [domain_name |-> domain_name,
                                          timestamp |-> ClockSeconds[con_now]]]
    /\ con_pc' = [con_pc EXCEPT ![d] = "spawned"]
    /\ UNCHANGED <<con_now, con_clean, con_dirs>>
    /\ UNCHANGED notCon

\* git_mgr.clone_repo(.., &release_dir) is called: git starts, and refuses
\* a target directory that exists with content.
ConFetch(d) ==
    /\ con_pc[d] = "spawned"
    /\ con_clean' = [con_clean EXCEPT ![d] = ConReleaseDir(d) \notin con_dirs]
    /\ con_pc' = [con_pc EXCEPT ![d] = "cloning"]
    /\ UNCHANGED <<con_now, con_req, con_dirs>>
    /\ UNCHANGED notCon

\* clone_repo returned. Ok: secure_directory, whose result is discarded, and
\* the call of execute_build follow. Err: return.
ConCloneReturns(d, ok) ==
    /\ con_pc[d] = "cloning"
    /\ ok => con_clean[d]
    /\ con_dirs' = IF ok THEN con_dirs \cup {ConReleaseDir(d)} ELSE con_dirs
    /\ con_pc' = [con_pc EXCEPT ![d] = IF ok THEN "building" ELSE "failed_fetch"]
    /\ UNCHANGED <<con_now, con_req, con_clean>>
    /\ UNCHANGED notCon

\* execute_build returned. Err: fs::remove_dir_all(&release_dir), return.
ConBuildReturns(d, ok) ==
    /\ con_pc[d] = "building"
    /\ con_dirs' = IF ok THEN con_dirs ELSE con_dirs \ {ConReleaseDir(d)}
    /\ con_pc' = [con_pc EXCEPT ![d] = IF ok THEN "restarting" ELSE "failed_build"]
    /\ UNCHANGED <<con_now, con_req, con_clean>>
    /\ UNCHANGED notCon

\* svc_mgr.restart returned; the task ends.
ConRestartReturns(d) ==
    /\ con_pc[d] = "restarting"
    /\ con_pc' = [con_pc EXCEPT ![d] = "done"]
    /\ UNCHANGED <<con_now, con_req, con_clean, con_dirs>>
    /\ UNCHANGED notCon

(***************************************************************************)
(* Specifications.                                                         *)
(***************************************************************************)
InitAccept ==
    /\ expected_uid \in Uids
    /\ AcceptIdle
    /\ PkgIdle
    /\ DeployIdle
    /\ PruneIdle
    /\ ProxyIdle
    /\ SslIdle
    /\ SecretIdle
    /\ GitIdle
    /\ DeleteIdle
    /\ PeerIdle
    /\ JailIdle
    /\ ServiceIdle
    /\ SiteIdle
    /\ UnitIdle
    /\ ConIdle
    /\ MainIdle

NextAccept == AcceptStep \/ AcceptErrorStep

SpecAccept == InitAccept /\ [][NextAccept]_vars

InitPkg ==
    /\ expected_uid = 1001
    /\ AcceptIdle
    /\ PkgIdle
    /\ DeployIdle
    /\ PruneIdle
    /\ ProxyIdle
    /\ SslIdle
    /\ SecretIdle
    /\ GitIdle
    /\ DeleteIdle
    /\ PeerIdle
    /\ JailIdle
    /\ ServiceIdle
    /\ SiteIdle
    /\ UnitIdle
    /\ ConIdle
    /\ MainIdle

NextPkg == PkgStep

SpecPkg == InitPkg /\ [][NextPkg]_vars

InitDeploy ==
    /\ expected_uid = 1001
    /\ AcceptIdle
    /\ PkgIdle
    /\ DeployIdle
    /\ PruneIdle
    /\ ProxyIdle
    /\ SslIdle
    /\ SecretIdle
    /\ GitIdle
    /\ DeleteIdle
    /\ PeerIdle
    /\ JailIdle
    /\ ServiceIdle
    /\ SiteIdle
    /\ UnitIdle
    /\ ConIdle
    /\ MainIdle

NextDeploy ==
    \/ DeployRequest
    \/ TaskFetch
    \/ CloneStep
    \/ JailStep
    \/ BuildSpawnStep
    \/ ChildWriteStep
    \/ ChildExitStep
    \/ StdoutReader
    \/ StderrReader
    \/ BuildReturns
    \/ RestartStep
    \/ ClientRecv
    \/ ClientDisconnect

SpecDeploy == InitDeploy /\ [][NextDeploy]_vars

InitTrace == InitDeploy

NextTrace ==
    \/ TraceRequest
    \/ PeerRequestStep
    \/ PeerSend
    \/ TaskFetch
    \/ CloneStep
    \/ JailStep
    \/ BuildSpawnStep
    \/ ChildWriteStep
    \/ ChildExitStep
    \/ StdoutReader
    \/ StderrReader
    \/ BuildReturns
    \/ RestartStep
    \/ ClientRecv
    \/ ClientDisconnect

SpecTrace == InitTrace /\ [][NextTrace]_vars

InitPrune ==
    /\ expected_uid = 1001
    /\ AcceptIdle
    /\ PkgIdle
    /\ DeployIdle
    /\ releases_exists \in BOOLEAN
    /\ \E releases \in SUBSET ReleaseEntries, strays \in {{}, StrayEntries} :
          rel_entries = releases \cup strays
    /\ releases_exists \/ rel_entries = {}
    /\ current_target \in CurrentTargets
    /\ prune_calls = 0
    /\ prune_last = NoPrune
    /\ ProxyIdle
    /\ SslIdle
    /\ SecretIdle
    /\ GitIdle
    /\ DeleteIdle
    /\ PeerIdle
    /\ JailIdle
    /\ ServiceIdle
    /\ SiteIdle
    /\ UnitIdle
    /\ ConIdle
    /\ MainIdle

NextPrune == PruneStep

SpecPrune == InitPrune /\ [][NextPrune]_vars

InitProxy ==
    /\ expected_uid = 1001
    /\ AcceptIdle
    /\ PkgIdle
    /\ DeployIdle
    /\ PruneIdle
    /\ ProxyIdle
    /\ SslIdle
    /\ SecretIdle
    /\ GitIdle
    /\ DeleteIdle
    /\ PeerIdle
    /\ JailIdle
    /\ ServiceIdle
    /\ SiteIdle
    /\ UnitIdle
    /\ ConIdle
    /\ MainIdle

NextProxy == CreateVhostStep \/ RemoveVhostStep

SpecProxy == InitProxy /\ [][NextProxy]_vars

InitSsl ==
    /\ expected_uid = 1001
    /\ AcceptIdle
    /\ PkgIdle
    /\ DeployIdle
    /\ PruneIdle
    /\ ProxyIdle
    /\ ssl_pc = "idle"
    /\ ssl_domain = <<>>
    /\ ssl_store = [d \in {x \in SslDomains : ~SslDomainRejected(x)} |-> NoSslDir]
    /\ ssl_installs = 0
    /\ ssl_result = "none"
    /\ umask \in Umasks
    /\ SecretIdle
    /\ GitIdle
    /\ DeleteIdle
    /\ PeerIdle
    /\ JailIdle
    /\ ServiceIdle
    /\ SiteIdle
    /\ UnitIdle
    /\ ConIdle
    /\ MainIdle

NextSsl ==
    \/ SslInstallStep
    \/ SslCreateDirStep
    \/ SslChmodDirStep
    \/ SslWriteFullchainStep
    \/ SslChmodFullchainStep
    \/ SslOpenPrivkeyStep
    \/ SslWritePrivkeyStep
    \/ SslSyncPrivkeyStep

SpecSsl == InitSsl /\ [][NextSsl]_vars

InitSecret ==
    /\ expected_uid = 1001
    /\ AcceptIdle
    /\ PkgIdle
    /\ DeployIdle
    /\ PruneIdle
    /\ ProxyIdle
    /\ SslIdle
    /\ SecretIdle
    /\ GitIdle
    /\ DeleteIdle
    /\ PeerIdle
    /\ JailIdle
    /\ ServiceIdle
    /\ SiteIdle
    /\ UnitIdle
    /\ ConIdle
    /\ MainIdle

NextSecret ==
    \/ SecretNewStep
    \/ SecretFromStringStep
    \/ SecretUse
    \/ SecretZeroize
    \/ SecretDestroy
    \/ SecretDrop

SpecSecret == InitSecret /\ [][NextSecret]_vars

InitGit ==
    /\ expected_uid = 1001
    /\ AcceptIdle
    /\ PkgIdle
    /\ DeployIdle
    /\ PruneIdle
    /\ ProxyIdle
    /\ SslIdle
    /\ SecretIdle
    /\ GitIdle
    /\ DeleteIdle
    /\ PeerIdle
    /\ JailIdle
    /\ ServiceIdle
    /\ SiteIdle
    /\ UnitIdle
    /\ ConIdle
    /\ MainIdle

\* The caller builds the credential, then calls clone_repo.
NextGit ==
    \/ SecretNewStep
    \/ SecretFromStringStep
    \/ CloneRepoStep
    \/ GitTempCreateStep
    \/ GitTempChmodStep
    \/ GitWriteKeyStep
    \/ GitSyncKeyStep
    \/ GitDestroy
    \/ GitSpawnStep
    \/ GitScrubStep

SpecGit == InitGit /\ [][NextGit]_vars

InitDelete ==
    /\ expected_uid = 1001
    /\ AcceptIdle
    /\ PkgIdle
    /\ DeployIdle
    /\ PruneIdle
    /\ ProxyIdle
    /\ SslIdle
    /\ SecretIdle
    /\ GitIdle
    /\ DeleteIdle
    /\ PeerIdle
    /\ JailIdle
    /\ ServiceIdle
    /\ SiteIdle
    /\ UnitIdle
    /\ ConIdle
    /\ MainIdle

NextDelete ==
    \/ DeleteDeploymentStep
    \/ TeardownStepAny

SpecDelete == InitDelete /\ [][NextDelete]_vars

InitJail ==
    /\ expected_uid = 1001
    /\ AcceptIdle
    /\ PkgIdle
    /\ DeployIdle
    /\ PruneIdle
    /\ ProxyIdle
    /\ SslIdle
    /\ SecretIdle
    /\ GitIdle
    /\ DeleteIdle
    /\ PeerIdle
    /\ sys_users \in SUBSET JailUsers
    /\ jail_log = <<>>
    /\ ServiceIdle
    /\ SiteIdle
    /\ UnitIdle
    /\ ConIdle
    /\ MainIdle

NextJail == ProvisionStep

SpecJail == InitJail /\ [][NextJail]_vars

InitService ==
    /\ expected_uid = 1001
    /\ AcceptIdle
    /\ PkgIdle
    /\ DeployIdle
    /\ PruneIdle
    /\ ProxyIdle
    /\ SslIdle
    /\ SecretIdle
    /\ GitIdle
    /\ DeleteIdle
    /\ PeerIdle
    /\ JailIdle
    /\ ServiceIdle
    /\ SiteIdle
    /\ UnitIdle
    /\ ConIdle
    /\ MainIdle

NextService == ManageServiceStep

SpecService == InitService /\ [][NextService]_vars

InitMain ==
    /\ expected_uid = 0
    /\ conn_log = <<>>
    /\ incoming = <<>>
    /\ warnings = <<>>
    /\ serving = "not_started"
    /\ PkgIdle
    /\ DeployIdle
    /\ PruneIdle
    /\ ProxyIdle
    /\ SslIdle
    /\ SecretIdle
    /\ GitIdle
    /\ DeleteIdle
    /\ PeerIdle
    /\ JailIdle
    /\ ServiceIdle
    /\ SiteIdle
    /\ UnitIdle
    /\ ConIdle
    /\ main_pc = "load_config"
    /\ main_exit = "running"
    /\ env \in [uid : EnvUids, socket_path : SocketPaths]
    /\ host \in [proxy : ProxyHosts, dir : BOOLEAN, file : {NoSocketFile, StaleFile}]
    /\ host.file = StaleFile => host.dir
    /\ sock = [dir |-> host.dir, file |-> host.file]
    /\ main_log = <<>>
    /\ streams = <<>>

NextMain ==
    \/ LoadConfig
    \/ \E ok \in BOOLEAN : CreateDir(ok)
    \/ \E ok \in BOOLEAN : RemoveStale(ok)
    \/ Discover
    \/ \E ok \in BOOLEAN : Bind(ok)
    \/ \E ok \in BOOLEAN : Chmod(ok)
    \/ \E ok \in BOOLEAN : Chown(ok)
    \/ MainAccept
    \/ StreamStart
    \/ \E i \in 1..MaxStreams : StreamComplete(i)
    \/ Interrupt
    \/ ServerEnded
    \/ \E ok \in BOOLEAN : Cleanup(ok)

SpecMain == InitMain /\ [][NextMain]_vars

InitSite ==
    /\ expected_uid = 1001
    /\ AcceptIdle
    /\ PkgIdle
    /\ DeployIdle
    /\ PruneIdle
    /\ ProxyIdle
    /\ SslIdle
    /\ SecretIdle
    /\ GitIdle
    /\ DeleteIdle
    /\ PeerIdle
    /\ JailIdle
    /\ ServiceIdle
    /\ MainIdle
    /\ SiteIdle
    /\ UnitIdle
    /\ ConIdle
    /\ UnitIdle
    /\ ConIdle

NextSite == ActivateSiteStep

SpecSite == InitSite /\ [][NextSite]_vars

InitUnit ==
    /\ expected_uid = 1001
    /\ AcceptIdle
    /\ PkgIdle
    /\ DeployIdle
    /\ PruneIdle
    /\ ProxyIdle
    /\ SslIdle
    /\ SecretIdle
    /\ GitIdle
    /\ DeleteIdle
    /\ PeerIdle
    /\ JailIdle
    /\ ServiceIdle
    /\ MainIdle
    /\ SiteIdle
    /\ UnitIdle
    /\ ConIdle

NextUnit == WriteUnitStep

SpecUnit == InitUnit /\ [][NextUnit]_vars

InitConcurrent ==
    /\ expected_uid = 1001
    /\ AcceptIdle
    /\ PkgIdle
    /\ DeployIdle
    /\ PruneIdle
    /\ ProxyIdle
    /\ SslIdle
    /\ SecretIdle
    /\ GitIdle
    /\ DeleteIdle
    /\ PeerIdle
    /\ JailIdle
    /\ ServiceIdle
    /\ MainIdle
    /\ SiteIdle
    /\ UnitIdle
    /\ ConIdle

NextConcurrent ==
    \/ ConTick
    \/ \E d \in Deployments, domain_name \in ConDomains : ConRequest(d, domain_name)
    \/ \E d \in Deployments : ConFetch(d)
    \/ \E d \in Deployments, ok \in BOOLEAN : ConCloneReturns(d, ok)
    \/ \E d \in Deployments, ok \in BOOLEAN : ConBuildReturns(d, ok)
    \/ \E d \in Deployments : ConRestartReturns(d)

SpecConcurrent == InitConcurrent /\ [][NextConcurrent]_vars

\* The runtime keeps polling every task that can make progress, and the manager
\* calls (git, chown, systemctl) return. Nothing obliges the build child to
\* write or to exit, nor the client to receive or to leave.
SpecDeployFair ==
    /\ SpecDeploy
    /\ WF_vars(TaskFetch)
    /\ WF_vars(CloneStep)
    /\ WF_vars(JailStep)
    /\ WF_vars(BuildSpawnStep)
    /\ WF_vars(StdoutReader)
    /\ WF_vars(StderrReader)
    /\ WF_vars(BuildReturns)
    /\ WF_vars(RestartStep)

\* As SpecDeployFair, and besides: the build child exits at some point, and a
\* client that stays connected takes every chunk that waits for it.
SpecDeployLive ==
    /\ SpecDeployFair
    /\ WF_vars(ChildExitStep)
    /\ WF_vars(ClientRecv)

(***************************************************************************)
(* C1: every connection the accept loop hands to the RPC framework has a   *)
(* readable peer uid equal to the expected uid or to 0; a connection with  *)
(* another uid, or with unreadable credentials, is never handed on.        *)
(***************************************************************************)
C1_OnlyExpectedOrRootAccepted ==
    /\ \A i \in 1..Len(incoming) :
          incoming[i].ok => incoming[i].uid \in {expected_uid, 0}
    /\ \A i \in 1..Len(conn_log) :
          (conn_log[i].uid \notin {expected_uid, 0} \/ ~conn_log[i].cred_ok)
              => ~conn_log[i].yielded
    /\ Cardinality({i \in 1..Len(incoming) : incoming[i].ok})
          = Cardinality({i \in 1..Len(conn_log) : conn_log[i].yielded})

C1_Witness ==
    /\ expected_uid = 1001
    /\ \E i \in 1..Len(conn_log) :
          conn_log[i].accept_ok /\ conn_log[i].cred_ok /\ conn_log[i].uid = 1002
    /\ \E i \in 1..Len(conn_log) : conn_log[i].accept_ok /\ ~conn_log[i].cred_ok
    /\ \E i \in 1..Len(incoming) : incoming[i].ok /\ incoming[i].uid = 1001

(***************************************************************************)
(* C2: execute_package_command spawns a child only when the command is one *)
(* of apt-get, apt, dnf, yum, zypper; every other command is rejected and  *)
(* no child is spawned.                                                    *)
(***************************************************************************)
C2_SpawnOnlyPackageManagers ==
    pkg_last.spawned => pkg_last.command \in {"apt-get", "apt", "dnf", "yum", "zypper"}

\* What the client's stream carries: the chunks received and those still queued.
Stream == delivered \o chan

StreamHas(content) == \E i \in 1..Len(Stream) : Stream[i].content = content

Count(seq, x) == Cardinality({i \in 1..Len(seq) : seq[i] = x})

(***************************************************************************)
(* C3: a domain name that contains "..", "/" or "\" is refused before any  *)
(* path is produced, any background task is spawned or any manager is      *)
(* called; whenever a path is produced the domain contains none of them.   *)
(***************************************************************************)
SecureJoinOk(s) ==
    /\ ~Contains(s, <<".", ".">>)
    /\ ~Contains(s, <<"/">>)
    /\ ~Contains(s, <<"\\">>)

C3_SecureJoinEnforced ==
    (release_dir # <<>> \/ dpc # "idle" \/ calls # <<>>) => SecureJoinOk(dreq.domain_name)

(***************************************************************************)
(* C4: the stages run in the order Fetching, Jailing, Building,            *)
(* Restarting, Done, each manager call at most once; every transition      *)
(* emits a log chunk, so the stream of a deployment in which every stage   *)
(* succeeded and nothing was discarded carries one marker per stage, five  *)
(* in all, and ends with the completion chunk.                             *)
(***************************************************************************)
StageCalls == <<"clone_repo", "secure_directory", "execute_build", "restart">>

StageMarkers == SelectSeq(Stream, LAMBDA c : c.content \notin {LOG_OUT, LOG_ERR})

C4_StagesInOrderWithMarkers ==
    /\ LET stage == SelectSeq(calls, LAMBDA c : c # "remove_dir_all")
       IN stage = SubSeq(StageCalls, 1, Len(stage))
    /\ (/\ dpc = "done"
        /\ rx_alive
        /\ chunks_lost = 0
        /\ \A i \in 1..Len(call_results) : call_results[i])
       => /\ Len(StageMarkers) = 5
          /\ StageMarkers[1].content = LOG_CLONE_START
          /\ StageMarkers[Len(StageMarkers)].content = LOG_COMPLETE

(***************************************************************************)
(* C5: when execute_build fails, the release directory is removed, a       *)
(* build-error chunk is on the stream of the connected client, and the     *)
(* service restart is never invoked.                                       *)
(***************************************************************************)
C5_BuildFailureCleanup ==
    (dpc = "failed_build" /\ rx_alive)
       => /\ ~release_dir_exists
          /\ StreamHas(LOG_BUILD_FAILED)
          /\ Count(calls, "restart") = 0

(***************************************************************************)
(* C6: the channel never holds more chunks than its capacity, and while    *)
(* the receiver is alive no chunk of the pipeline is discarded because the *)
(* channel is full.                                                        *)
(***************************************************************************)
C6_BoundedAndLossless ==
    /\ Len(chan) <= ChanCap
    /\ chunks_lost = 0

(***************************************************************************)
(* C7: when the client disconnects while the build child is running, the   *)
(* child is eventually stopped, and once the receiver is gone no chunk is  *)
(* put on the stream.                                                      *)
(***************************************************************************)
\* The receiver went away during the build, while the child was running and
\* had output still to come.
DisconnectedMidBuild ==
    /\ dpc = "building"
    /\ child = "running"
    /\ child_written < MaxLines
    /\ ~rx_alive
    /\ disconnected_at = "building"

C7_DisconnectStopsBuild ==
    /\ DisconnectedMidBuild ~> (child # "running")
    /\ [][~rx_alive => (chan' = chan /\ delivered' = delivered)]_vars

(***************************************************************************)
(* C8: whatever the release directories, keep_count and the target of      *)
(* `current`, the directory `current` resolves to is not among the         *)
(* directories an invocation of prune_old_releases deleted.                *)
(***************************************************************************)
C8_ActiveReleaseNeverDeleted ==
    /\ Physical(CurrentLink) \notin prune_last.deleted
    /\ \A n \in 1..MaxReleases :
          (/\ prune_last.ret = "Ok"
           /\ current_target # <<>>
           /\ Physical(CurrentLink) = PhysReleases \o <<ReleaseName(n)>>
           /\ ReleaseName(n) \in prune_last.skipped)
             => [name |-> ReleaseName(n), kind |-> "dir"] \in rel_entries

C8_Witness ==
    /\ prune_last.ret = "Ok"
    /\ current_target = StableLink
    /\ ReleaseName(1) \in prune_last.skipped
    /\ prune_last.deleted = {PhysReleases \o <<ReleaseName(2)>>}
    /\ prune_last.total = 4
    /\ prune_last.keep_count = 2

(***************************************************************************)
(* C9: in create_vhost and in remove_vhost the reload command is run only  *)
(* after the config test of the same operation succeeded; when the config  *)
(* test fails the operation returns an error and runs no reload.           *)
(***************************************************************************)
C9_ReloadOnlyAfterPassingTest ==
    LET cmds == proxy_last.cmds
    IN /\ \A i \in 1..Len(cmds) :
             cmds[i].cmd = "systemctl reload apache2"
                => /\ i > 1
                   /\ cmds[i - 1].cmd = "apache2ctl configtest"
                   /\ cmds[i - 1].success
       /\ (\E i \in 1..Len(cmds) : cmds[i].cmd = "apache2ctl configtest" /\ ~cmds[i].success)
             => /\ proxy_last.result = "Err"
                /\ \A i \in 1..Len(cmds) : cmds[i].cmd # "systemctl reload apache2"

C9_Witness ==
    /\ proxy_last.op = "remove_vhost"
    /\ proxy_last.domain = <<"b">>
    /\ proxy_last.result = "Err"
    /\ proxy_last.cmds = <<[cmd |-> "apache2ctl configtest", success |-> FALSE]>>
    /\ <<"a", " ", "b">> \in sites_enabled

(***************************************************************************)
(* C10: from its creation onward, at every point at which it can be        *)
(* observed, a privkey.pem under the SSL storage directory has mode 0o600, *)
(* also while and after install_certificate runs again for the same domain *)
(* over the privkey.pem of an earlier call.                                *)
(***************************************************************************)
C10_PrivkeyAlwaysOwnerOnly ==
    \A d \in DOMAIN ssl_store :
        ssl_store[d].privkey # NoFile => ssl_store[d].privkey.mode = \o600

\* A second install for a domain has just reopened the key file that an
\* earlier, completed install left behind.
C10_Witness ==
    /\ ssl_pc = "write_privkey"
    /\ ssl_domain = <<"a">>
    /\ ssl_store[<<"a">>].privkey.created_by < ssl_installs
    /\ ssl_store[<<"a">>].privkey.mode = \o600
    /\ ssl_store[<<"a">>].privkey.content = "empty"
    /\ umask = \o027

C12_KeyFileScrubbedOnEveryOutcome ==
    (git_pc = "returned" /\ git_req.with_key /\ git_exit # "none")
        => /\ ~key_file.exists
           /\ key_residue.present
           /\ AllZero(key_residue.content)
           /\ key_residue.synced
           /\ sec_state = "dropped"
           /\ AllZero(sec_bytes)

(***************************************************************************)
(* C13: DeleteDeployment runs its teardown steps in the order stop         *)
(* service, remove unit file, reload supervisor, deprovision user, remove  *)
(* the web root; the first step that fails ends the sequence, no later     *)
(* step runs, and the handler returns the error.                           *)
(***************************************************************************)
C13_TeardownInOrderAbortsOnFailure ==
    /\ Len(del_steps) <= Len(TeardownOrder)
    /\ \A i \in 1..Len(del_steps) :
          /\ del_steps[i].step = TeardownOrder[i]
          /\ i < Len(del_steps) => del_steps[i].ok
    /\ (del_steps # <<>> /\ ~del_steps[Len(del_steps)].ok)
          => (del_pc = "returned" /\ del_result = "Err")
    /\ del_result = "Ok"
          => (Len(del_steps) = Len(TeardownOrder) /\ del_pc = "returned")

\* The reload of the supervisor failed after two steps had succeeded.
C13_Witness ==
    /\ Len(del_steps) = 3
    /\ del_steps[1].ok /\ del_steps[2].ok /\ ~del_steps[3].ok
    /\ del_steps[3].step = "reload_daemon"
    /\ del_result = "Err"

(***************************************************************************)
(* C14: when a stage of a streaming deployment fails, no stage runs after  *)
(* it and none is called twice, the task ends in a failed state, and the   *)
(* last chunk on the stream of a connected client is the error chunk of    *)
(* the stage that failed.                                                  *)
(***************************************************************************)
\* The stage whose call was the first to fail, 0 when none has failed.
FirstFailedStage ==
    IF \A i \in 1..Len(call_results) : call_results[i] THEN 0
    ELSE CHOOSE f \in 1..Len(call_results) :
            /\ ~call_results[f]
            /\ \A i \in 1..(f - 1) : call_results[i]

\* The error line the task has for a failed stage; it has none for the jail
\* and the restart stage.
ErrorChunkOf(stage) ==
    IF stage = "clone_repo" THEN {LOG_CLONE_FAILED}
    ELSE IF stage = "execute_build" THEN {LOG_BUILD_FAILED}
    ELSE {}

C14_FailureEndsStreamWithErrorChunk ==
    (FirstFailedStage # 0 /\ rx_alive)
        => /\ Len(call_results) = FirstFailedStage
           /\ \A c \in {StageCalls[i] : i \in 1..4} : Count(calls, c) <= 1
           /\ \A i \in (FirstFailedStage + 1)..4 : Count(calls, StageCalls[i]) = 0
           /\ dpc \in {"failed_fetch", "failed_build"}
           /\ Stream # <<>>
           /\ Stream[Len(Stream)].content \in ErrorChunkOf(StageCalls[FirstFailedStage])

(***************************************************************************)
(* C15: when jail.secure_directory fails in a deployment, execute_build    *)
(* and the service restart are never invoked for that deployment.          *)
(***************************************************************************)
C15_JailFailureStopsPipeline ==
    (Len(call_results) >= 2 /\ ~call_results[2])
        => /\ Count(calls, "execute_build") = 0
           /\ Count(calls, "restart") = 0
           /\ child = "none"

(***************************************************************************)
(* C16: when the service restart fails in a deployment, the task does not  *)
(* reach the done state and the completion chunk is never put on the       *)
(* stream.                                                                 *)
(***************************************************************************)
C16_RestartFailureNeverCompletes ==
    (Len(call_results) >= 4 /\ ~call_results[4])
        => /\ dpc # "done"
           /\ ~StreamHas(LOG_COMPLETE)

(***************************************************************************)
(* C18: execute_build returns only after both reader tasks have ended;     *)
(* while the receiver is alive every line the child wrote has then been    *)
(* sent as an [OUT] or [ERR] chunk; and no [OUT] or [ERR] chunk follows    *)
(* the chunk the task sends after the build.                               *)
(***************************************************************************)
\* execute_build had spawned the child and has returned.
BuildReturned ==
    /\ child # "none"
    /\ dpc \in {"restarting", "done", "failed_build"}

LineChunks == SelectSeq(Stream, LAMBDA c : c.content \in {LOG_OUT, LOG_ERR})

C18_ReadersDrainedBeforeReturn ==
    /\ BuildReturned => (stdout_task = "done" /\ stderr_task = "done")
    /\ (BuildReturned /\ rx_alive) => Len(LineChunks) = child_written
    /\ \A i, j \in 1..Len(Stream) :
          (i < j /\ Stream[i].content \in {LOG_RESTARTING, LOG_BUILD_FAILED})
              => Stream[j].content \notin {LOG_OUT, LOG_ERR}

Rejected(i) ==
    /\ conn_log[i].accept_ok
    /\ conn_log[i].cred_ok
    /\ conn_log[i].uid \notin {expected_uid, 0}

C19_RejectionKeepsAccepting ==
    /\ \A i \in 1..Len(conn_log) :
          Rejected(i) => (conn_log[i].closed /\ ~conn_log[i].yielded)
    /\ (conn_log # <<>> /\ Rejected(Len(conn_log))) => serving = "running"
    /\ \A i, j \in 1..Len(conn_log) :
          (/\ i < j
           /\ Rejected(i)
           /\ conn_log[j].accept_ok
           /\ conn_log[j].cred_ok
           /\ conn_log[j].uid \in {expected_uid, 0})
              => (conn_log[j].yielded /\ ~conn_log[j].closed)

\* A rejected connection, then one from the expected uid that was handed on.
C19_Witness ==
    /\ expected_uid = 1001
    /\ Len(conn_log) >= 2
    /\ Rejected(1)
    /\ conn_log[1].uid = 1002
    /\ conn_log[2].uid = 1001
    /\ conn_log[2].yielded
    /\ incoming = <<[ok |-> TRUE, uid |-> 1001]>>

(***************************************************************************)
(* C20: an error returned by accept ends neither the accept loop nor the   *)
(* server: after the error the server is still running, so that            *)
(* connections arriving later are accepted.                                *)
(***************************************************************************)
C20_AcceptErrorKeepsServing ==
    (\E i \in 1..Len(conn_log) : ~conn_log[i].accept_ok) => serving = "running"

(***************************************************************************)
(* C24: execute_package_command rejects the request, and spawns no child,  *)
(* whenever an argument contains one of the characters ; & |.              *)
(***************************************************************************)
ShellMetacharacters == {";", "&", "|"}

HasMetacharacter(args) ==
    \E i \in 1..Len(args) : \E k \in 1..Len(args[i]) : args[i][k] \in ShellMetacharacters

C24_MetacharacterArgsRejected ==
    HasMetacharacter(pkg_last.args)
        => /\ ~pkg_last.spawned
           /\ pkg_last.outcome \in {"rejected_policy", "rejected_traversal"}

(***************************************************************************)
(* C27: prune_old_releases deletes only directories of the slice           *)
(* sorted[0 .. count - keep_count] of the sorted 14-digit release          *)
(* directories: every directory it deleted had at least keep_count newer   *)
(* releases beside it, so the keep_count newest survive; when keep_count   *)
(* is at least the number of releases it deletes nothing and returns 0.    *)
(***************************************************************************)
\* The releases found by the call that are newer than the release named n.
NewerThan(n) == {m \in prune_last.before : LexLess(n, m)}

C27_KeepCountNewestRetained ==
    prune_last.ret = "Ok"
       => /\ \A d \in prune_last.deleted :
                /\ d[Len(d)] \in prune_last.before
                /\ Cardinality(NewerThan(d[Len(d)])) >= prune_last.keep_count
          /\ \A n \in prune_last.before :
                Cardinality(NewerThan(n)) < prune_last.keep_count
                   => [name |-> n, kind |-> "dir"] \in rel_entries
          /\ prune_last.keep_count >= Cardinality(prune_last.before)
                => (prune_last.deleted = {} /\ prune_last.count = 0)

\* Four releases, keep_count 2: the two oldest were deleted.
C27_Witness ==
    /\ prune_last.ret = "Ok"
    /\ prune_last.keep_count = 2
    /\ prune_last.before = {ReleaseName(n) : n \in 1..4}
    /\ prune_last.deleted = {PhysReleases \o <<ReleaseName(n)>> : n \in 1..2}
    /\ ReleasePaths = {ReleaseName(3), ReleaseName(4)}

(***************************************************************************)
(* C28: the count prune_old_releases returns is the number of directories  *)
(* it removed; a skipped active release and a failed delete are not        *)
(* counted, and every other candidate is deleted even after a failed       *)
(* delete. With 5 releases, current at the oldest and keep_count 2, the    *)
(* two newest and the oldest remain and the count is 2.                    *)
(***************************************************************************)
C28_CountIsNumberRemoved ==
    prune_last.ret = "Ok"
       => /\ prune_last.count = Cardinality(prune_last.before \ ReleasePaths)
          /\ \A n \in prune_last.skipped \cup prune_last.failed : n \in ReleasePaths
          /\ \A i \in 1..Len(prune_last.candidates) :
                prune_last.candidates[i] \notin (prune_last.skipped \cup prune_last.failed)
                   => prune_last.candidates[i] \notin ReleasePaths
          /\ (/\ prune_last.before = {ReleaseName(n) : n \in 1..5}
              /\ prune_last.keep_count = 2
              /\ Physical(CurrentLink) = PhysReleases \o <<ReleaseName(1)>>
              /\ prune_last.failed = {})
                => /\ prune_last.count = 2
                   /\ ReleasePaths = {ReleaseName(1), ReleaseName(4), ReleaseName(5)}

\* Five releases, current at the oldest, keep_count 1, and the delete of the
\* second oldest failed: the oldest was skipped, the two after the failure
\* were deleted.
C28_Witness ==
    /\ prune_last.ret = "Ok"
    /\ prune_last.before = {ReleaseName(n) : n \in 1..5}
    /\ prune_last.keep_count = 1
    /\ prune_last.skipped = {ReleaseName(1)}
    /\ prune_last.failed = {ReleaseName(2)}
    /\ prune_last.count = 2
    /\ ReleasePaths = {ReleaseName(1), ReleaseName(2), ReleaseName(5)}

(***************************************************************************)
(* C29: when create_vhost and then remove_vhost for the same domain both   *)
(* return Ok, neither the sites-available file nor the sites-enabled link  *)
(* of the domain is left and the proxy was reloaded successfully; and      *)
(* remove_vhost for a domain whose files are missing fails only when       *)
(* test_and_reload does.                                                   *)
(***************************************************************************)
ReloadedSuccessfully(op) ==
    /\ op.cmds # <<>>
    /\ op.cmds[Len(op.cmds)] = [cmd |-> "systemctl reload apache2", success |-> TRUE]

C29_CreateThenRemoveLeavesNothing ==
    /\ (/\ proxy_last.op = "remove_vhost"
        /\ proxy_last.result = "Ok"
        /\ proxy_last.prev_op = "create_vhost"
        /\ proxy_last.prev_domain = proxy_last.domain
        /\ proxy_last.prev_result = "Ok")
          => /\ proxy_last.domain \notin sites_available
             /\ proxy_last.domain \notin sites_enabled
             /\ ReloadedSuccessfully(proxy_last)
    /\ (/\ proxy_last.op = "remove_vhost"
        /\ proxy_last.missing
        /\ proxy_last.result = "Err")
          => Len(proxy_last.cmds) < 2

(***************************************************************************)
(* C30: provision_app_user is idempotent: a call right after a successful  *)
(* call for the same username returns success, changes nothing and runs    *)
(* no useradd; and useradd is never run for a user that the lookup probe   *)
(* reports as existing.                                                    *)
(***************************************************************************)
C30_ProvisionIdempotent ==
    /\ \A i \in 1..Len(jail_log) :
          jail_log[i].probe = "exists" => jail_log[i].useradd = "not_run"
    /\ \A i \in 2..Len(jail_log) :
          (jail_log[i].username = jail_log[i - 1].username /\ jail_log[i - 1].result = "Ok")
             => /\ jail_log[i].result = "Ok"
                /\ jail_log[i].users_after = jail_log[i - 1].users_after
                /\ jail_log[i].useradd = "not_run"

(***************************************************************************)
(* C25: manage_service maps action 0, 1, 2, 3, 4 to exactly one supervisor *)
(* call of kind start, stop, restart, reload_daemon, enable_and_start;     *)
(* any other action gives a failure response and no supervisor call; the   *)
(* response has success = TRUE exactly when the call succeeded, and when   *)
(* systemctl failed its stderr is part of the response's stderr.           *)
(***************************************************************************)
ServiceKinds == <<"start", "stop", "restart", "reload_daemon", "enable_and_start">>

C25_ActionDispatch ==
    svc_served > 0
       => /\ svc_last.action \in 0..4
               => /\ Len(svc_last.calls) = 1
                  /\ svc_last.calls[1].kind = ServiceKinds[svc_last.action + 1]
                  /\ svc_last.response.success = (svc_last.calls[1].outcome = "exit_0")
                  /\ svc_last.calls[1].outcome = "exit_nonzero"
                        => \E k \in 1..Len(svc_last.response.stderr) :
                              svc_last.response.stderr[k] = svc_last.calls[1].stderr
          /\ svc_last.action \notin 0..4
               => /\ svc_last.calls = <<>>
                  /\ ~svc_last.response.success

\* A restart that systemctl refused.
C25_Witness ==
    /\ svc_last.action = 2
    /\ svc_last.calls # <<>>
    /\ svc_last.calls[1].args = <<"restart", <<"n", "g">>>>
    /\ svc_last.calls[1].outcome = "exit_nonzero"
    /\ ~svc_last.response.success
    /\ svc_last.response.stderr = <<"systemctl ", "restart", " failed: ", "Job failed.">>

(***************************************************************************)
(* C26: manage_service rejects a service name that has a character other   *)
(* than alphanumerics, `-`, `.`, `@`, and never calls the supervisor for   *)
(* such a request.                                                         *)
(***************************************************************************)
ServiceNameChars == {"a", "b", "g", "n", "s", "x", "y", "1", "-", ".", "@"}

ValidServiceName(name) == \A i \in 1..Len(name) : name[i] \in ServiceNameChars

C26_ServiceNameValidated ==
    (svc_served > 0 /\ ~ValidServiceName(svc_last.service_name))
       => /\ svc_last.calls = <<>>
          /\ ~svc_last.response.success

(***************************************************************************)
(* C23: when KARI_API_UID is missing or not numeric the process ends with  *)
(* a failure before the socket is opened: it makes no filesystem step, the *)
(* socket directory and file stay as they were found, and no connection is *)
(* ever accepted.                                                          *)
(***************************************************************************)
NumericText(v) ==
    LET ds == IF v # <<>> /\ v[1] = "+" THEN Tail(v) ELSE v
    IN ds # <<>> /\ \A i \in 1..Len(ds) : ds[i] \in {DigitChars[d] : d \in 1..10}

C23_BadUidNeverStarts ==
    (~env.uid.set \/ ~NumericText(env.uid.value))
       => /\ main_pc \in {"load_config", "done"}
          /\ main_pc = "done" => main_exit = "panic"
          /\ main_log = <<>>
          /\ sock = [dir |-> host.dir, file |-> host.file]
          /\ conn_log = <<>>
          /\ serving = "not_started"

\* The process has ended on a uid that is not a number, a stale socket file
\* still in place.
C23_Witness ==
    /\ env.uid = [set |-> TRUE, value |-> <<"a", "p", "i">>]
    /\ main_pc = "done"
    /\ main_exit = "panic"
    /\ host.file = StaleFile
    /\ sock.file = StaleFile

(***************************************************************************)
(* C22: a connection is accepted only after the socket was bound, then set *)
(* to mode 0o660, then given to the expected uid and gid; and a failed     *)
(* startup step (directory creation, stale socket removal, proxy           *)
(* discovery, bind, chmod, chown) ends the process with an error without   *)
(* the accept loop ever running.                                           *)
(***************************************************************************)
StartupOps == {"create_dir_all", "remove_file", "discover", "bind", "chmod", "chown"}

C22_SecuredBeforeAccept ==
    /\ (conn_log # <<>> \/ serving = "running")
          => \E i, j, k \in 1..Len(main_log) :
                /\ i < j /\ j < k
                /\ main_log[i] = [op |-> "bind", ok |-> TRUE]
                /\ main_log[j] = [op |-> "chmod", ok |-> TRUE]
                /\ main_log[k] = [op |-> "chown", ok |-> TRUE]
    /\ serving = "running"
          => sock.file = [kind |-> "bound", mode |-> <<6, 6, 0>>, uid |-> expected_uid,
                          gid |-> "api"]
    /\ \A i \in 1..Len(main_log) :
          (main_log[i].op \in StartupOps /\ ~main_log[i].ok)
             => /\ i = Len(main_log)
                /\ main_pc = "done"
                /\ main_exit = "error"
                /\ conn_log = <<>>
                /\ serving = "not_started"

\* A connection let through by a process that had to remove a stale socket.
C22_Witness ==
    /\ host.file = StaleFile
    /\ conn_log # <<>>
    /\ conn_log[1].yielded
    /\ \E i \in 1..Len(main_log) : main_log[i] = [op |-> "remove_file", ok |-> TRUE]

(***************************************************************************)
(* C21: after the interrupt signal no new connection is accepted, no       *)
(* stream in flight is cancelled, and the socket file is removed and       *)
(* main() returns only when every stream has run to completion.            *)
(***************************************************************************)
C21_GracefulShutdown ==
    /\ main_pc \in {"cleanup", "done"} => serving # "running"
    /\ \A i \in 1..Len(streams) : streams[i] # "cancelled"
    /\ (main_pc = "done" /\ main_exit = "ok")
          => \A i \in 1..Len(streams) : streams[i] = "completed"

(***************************************************************************)
(* C31: activate_site returns an error and runs no action when the site id *)
(* is blank, the domain is blank or owner_uid is not positive; for every   *)
(* other request it runs the action and answers ok = TRUE, whichever the   *)
(* action.                                                                 *)
(***************************************************************************)
Blank(s) == \A i \in 1..Len(s) : s[i] \in {" ", "\t", "\n"}

C31_ActivateValidates ==
    site_served > 0
       => IF Blank(site_last.site_id) \/ Blank(site_last.domain) \/ site_last.owner_uid < 1
          THEN ~site_last.ok /\ site_last.err # "none" /\ site_last.ran = <<>>
          ELSE site_last.ok /\ site_last.ran = <<site_last.action>>

\* A request refused only because its site id is whitespace.
C31_Witness ==
    /\ site_served > 0
    /\ site_last.site_id = <<"\t", " ">>
    /\ site_last.domain = <<"e", ".", "c">>
    /\ site_last.owner_uid = 1001
    /\ site_last.err = "site id is required"

(***************************************************************************)
(* C32: when the git clone fails the task puts the clone error chunk on    *)
(* the stream, returns and so drops the sender, invokes neither            *)
(* secure_directory nor execute_build nor restart, and does not remove the *)
(* release directory.                                                      *)
(***************************************************************************)
C32_CloneFailureEndsPipeline ==
    (call_results # <<>> /\ ~call_results[1])
       => /\ dpc = "failed_fetch"
          /\ calls = <<"clone_repo">>
          /\ call_results = <<FALSE>>
          /\ SendersHeld = 0
          /\ child = "none"
          /\ rx_alive => /\ Stream # <<>>
                         /\ Stream[Len(Stream)].content = LOG_CLONE_FAILED

\* A failed clone that left the release directory behind, seen by a client
\* that is still connected.
C32_Witness ==
    /\ dpc = "failed_fetch"
    /\ release_dir_exists
    /\ rx_alive
    /\ delivered # <<>>
    /\ delivered[Len(delivered)].content = LOG_CLONE_FAILED

(***************************************************************************)
(* C33: execute_build refuses an empty run-as username and one with a      *)
(* character outside [A-Za-z0-9-] before it spawns: it returns an error,   *)
(* no child process and no reader task exists, and no [OUT]/[ERR] chunk is *)
(* sent.                                                                   *)
(***************************************************************************)
RunAsChars == {"a", "b", "e", "i", "k", "p", "r", "x", "1", "-"}

BadRunAs(name) == name = <<>> \/ \E i \in 1..Len(name) : name[i] \notin RunAsChars

C33_BuildRefusesBadUsername ==
    /\ SuspiciousUsername(<<>>)
    /\ \A name \in {AppUser(a) : a \in AppIdPool} \cup {<<"-">>, <<"a", ";">>, <<" ">>} :
          SuspiciousUsername(name) = BadRunAs(name)
    /\ (Count(calls, "execute_build") = 1 /\ BadRunAs(AppUser(dreq.app_id)))
          => /\ child = "none"
             /\ stdout_task = "none"
             /\ stderr_task = "none"
             /\ ~StreamHas(LOG_OUT)
             /\ ~StreamHas(LOG_ERR)
             /\ dpc \in {"build_called", "failed_build"}
             /\ dpc = "failed_build" => call_results[3] = FALSE

\* The build was refused for the user "kari-app-a b".
C33_Witness ==
    /\ dreq.app_id = <<"a", " ", "b">>
    /\ dpc = "failed_build"
    /\ Len(call_results) = 3
    /\ call_results[1]
    /\ child = "none"

(***************************************************************************)
(* C34: an invocation of prune_old_releases removes nothing but            *)
(* directories of the releases directory whose name is exactly 14 ASCII    *)
(* digits: every file, symbolic link and directory of another name is      *)
(* still there afterwards, and only the 14-digit directories are counted   *)
(* as releases when the number to delete is worked out.                    *)
(***************************************************************************)
TimestampDir(e) ==
    /\ e.kind = "dir"
    /\ Len(e.name) = 14
    /\ \A i \in 1..Len(e.name) :
          e.name[i] \in {"0", "1", "2", "3", "4", "5", "6", "7", "8", "9"}

C34_OnlyTimestampDirsPruned ==
    [][ /\ rel_entries' \subseteq rel_entries
        /\ \A e \in rel_entries : ~TimestampDir(e) => e \in rel_entries'
        /\ (prune_last'.ret = "Ok" /\ releases_exists)
              => LET releases == Cardinality({e \in rel_entries : TimestampDir(e)})
                 IN /\ prune_last'.total = releases
                    /\ Len(prune_last'.candidates) =
                          IF releases > prune_last'.keep_count
                          THEN releases - prune_last'.keep_count ELSE 0
      ]_vars

\* Two releases among the stray entries, one to keep: the older release is
\* gone and every stray entry is still there.
C34_Witness ==
    /\ prune_calls = 1
    /\ prune_last.keep_count = 1
    /\ prune_last.total = 2
    /\ prune_last.count = 1
    /\ StrayEntries \subseteq rel_entries
    /\ Cardinality(rel_entries) = Cardinality(StrayEntries) + 1

(***************************************************************************)
(* C35: when install_certificate has returned an error, no partially       *)
(* written privkey.pem is left for its domain: a failure between the open  *)
(* of the key file and the end of its synced write unlinks the file before *)
(* the error is returned.                                                  *)
(***************************************************************************)
C35_NoPartialKeyAfterFailure ==
    (ssl_pc = "idle" /\ ssl_result = "Err" /\ ssl_domain \in DOMAIN ssl_store)
       => ssl_store[ssl_domain].privkey.content \notin {"empty", "written"}

(***************************************************************************)
(* C36: every Environment line rendered into a unit file has no newline    *)
(* but the one that ends it, and every `"` that comes from the value is    *)
(* escaped, so that the line is one directive whose value ends at the      *)
(* closing quote the template wrote.                                       *)
(***************************************************************************)
\* The position of the first `"` at or after i that no backslash escapes,
\* reading from i with a backslash taking the character after it; 0 if none.
RECURSIVE FirstOpenQuote(_, _)
FirstOpenQuote(s, i) ==
    IF i > Len(s) THEN 0
    ELSE IF s[i] = "\\" THEN FirstOpenQuote(s, i + 2)
    ELSE IF s[i] = "\"" THEN i
    ELSE FirstOpenQuote(s, i + 1)

C36_EnvLineIsOneDirective ==
    \A n \in 1..Len(unit_last.env_strings) :
        LET line == unit_last.env_strings[n]
        IN /\ \A i \in 1..(Len(line) - 1) : line[i] # "\n"
           /\ line[Len(line)] = "\n"
           /\ FirstOpenQuote(line, 3) = Len(line) - 1

(***************************************************************************)
(* C37: two deployment tasks that run at the same time never work in the   *)
(* same release directory, and the release directory of a task whose       *)
(* clone succeeded stays on disk for as long as that task goes on (a build *)
(* failure of the other task does not remove it).                          *)
(***************************************************************************)
ConActive(d) == con_pc[d] \in {"spawned", "cloning", "building", "restarting"}

C37_NoSharedReleaseDir ==
    /\ \A d, e \in Deployments :
          (d # e /\ ConActive(d) /\ ConActive(e)) => ConReleaseDir(d) # ConReleaseDir(e)
    /\ \A d \in Deployments :
          con_pc[d] \in {"building", "restarting"} => ConReleaseDir(d) \in con_dirs

(***************************************************************************)
(* C38: when the client closes the stream before the build stage of a      *)
(* deployment has finished, the service restart is not invoked for that    *)
(* deployment.                                                             *)
(***************************************************************************)
C38_DisconnectAbortsPipeline ==
    disconnected_at \in {"spawned", "cloning", "jailing", "build_called", "building"}
       => Count(calls, "restart") = 0

(***************************************************************************)
(* C39: when the config test fails during create_vhost the change is       *)
(* rolled back: the vhost file and the enabled symlink which that call     *)
(* wrote (neither was there when it started) are not left in place.        *)
(***************************************************************************)
C39_FailedCreateRolledBack ==
    (/\ proxy_last.op = "create_vhost"
     /\ proxy_last.missing
     /\ proxy_last.cmds = <<[cmd |-> "apache2ctl configtest", success |-> FALSE]>>)
       => /\ proxy_last.domain \notin sites_available
          /\ proxy_last.domain \notin sites_enabled

(***************************************************************************)
(* C40: if the build child exits at some point and the client either keeps *)
(* receiving or disconnects, the background task of every deployment       *)
(* terminates, in Done or in a failed stage, and every sender of the       *)
(* channel, the clones of the two reader tasks included, is dropped, so    *)
(* that the client stream ends.                                            *)
(***************************************************************************)
TaskTerminated ==
    /\ dpc \in {"done", "failed_fetch", "failed_build"}
    /\ SendersHeld = 0

C40_TaskTerminatesAndDropsSenders ==
    (dpc = "spawned") ~> TaskTerminated

\* A build whose readers waited for room in a full channel has terminated.
C40_Witness ==
    /\ TaskTerminated
    /\ dpc = "done"
    /\ rx_alive
    /\ child_written = MaxLines
    /\ Len(delivered) > ChanCap

====
